---------------------------- MODULE Spec2Model ----------------------------
(***************************************************************************)
(* Model of the food-resolution pipeline of ai_nutritiolog_bot: the        *)
(* nutrition analyzer (normalisation, portion arithmetic, analysis         *)
(* cache), the food input agent (validation of oracle output) and the      *)
(* aiogram handlers that drive the per-user FSM from a message to a        *)
(* persisted food entry.                                                   *)
(*                                                                         *)
(* Python dicts are TLA+ functions over the keys that are present, so a    *)
(* missing key is a key outside DOMAIN.  Numbers are integers; totals      *)
(* rounded to one decimal are kept in tenths.  Cyrillic words are written  *)
(* in Latin transliteration.  Calls of the chat transport (answer,         *)
(* edit_text) carry no session state and are taken to succeed.             *)
(***************************************************************************)
EXTENDS Integers, Sequences, FiniteSets, TLC

VARIABLES
    fsm,      \* user -> [state, data]: aiogram MemoryStorage (FSMContext)
    records,  \* sequence of food entries written by create_food_entry
    cache,    \* redis keys food_analysis:<key> -> [value, ttl]
    redis_up, \* RedisService.redis_client is not None
    oracle,   \* fingerprint -> number of analysis-oracle invocations
    last,     \* the step taken last: event, user, handler and its inputs
    handled,  \* number of updates the dispatcher has taken so far
    call,     \* the last call of a pure function: name, arguments, result
    tasks     \* handlers suspended at an await (concurrent dispatch)

vars == <<fsm, records, cache, redis_up, oracle, last, handled, call, tasks>>

-----------------------------------------------------------------------------
(* Dict helpers *)

EmptyDict == <<>>

Get(d, k, default) == IF k \in DOMAIN d THEN d[k] ELSE default

Min(a, b) == IF a <= b THEN a ELSE b

Max(a, b) == IF a >= b THEN a ELSE b

Nutrients == {"calories", "protein", "fat", "carbs"}

-----------------------------------------------------------------------------
(* Food names: the text, the keyword stems the lowercased text contains    *)
(* and the digit runs re.findall(r"\d+") finds in it.                      *)

FoodName(text, stems, numbers) ==
    [text |-> text, stems |-> stems, numbers |-> numbers]

UnknownDish == FoodName("neizvestnoe blyudo", {}, <<>>)

EmptyName == FoodName("", {}, <<>>)

Contains(name, stem) == stem \in name.stems

ContainsAny(name, stemset) == name.stems \cap stemset # {}

Portion(size, weight, description) ==
    [size |-> size, weight |-> weight, description |-> description]

ThreeSizes(w1, w2, w3) ==
    << Portion("small", w1, "small"), Portion("medium", w2, "medium"),
       Portion("large", w3, "large") >>

GenerateSmartDefaultPortions(food_name) ==
    LET numbers == food_name.numbers
        qty == IF numbers # <<>> THEN numbers[1] ELSE 0
    IN  IF ContainsAny(food_name, {"banan", "yablok", "apelsin", "grush"})
        THEN IF numbers # <<>>
             THEN << Portion("exact", qty * 120, "qty pieces") >>
             ELSE ThreeSizes(120, 240, 360)
        ELSE IF ContainsAny(food_name, {"hleb", "bulochk", "baton", "kusochek"})
        THEN IF Contains(food_name, "kusochek") \/ numbers # <<>>
             THEN << Portion("exact", 30, "slice") >>
             ELSE ThreeSizes(30, 60, 90)
        ELSE IF ContainsAny(food_name, {"stakan", "kruzhk", "chashk", "butylk"})
        THEN IF Contains(food_name, "stakan")
             THEN << Portion("exact", 250, "glass") >>
             ELSE IF ContainsAny(food_name, {"kruzhk", "chashk"})
             THEN << Portion("exact", 300, "mug") >>
             ELSE << Portion("exact", 500, "bottle") >>
        ELSE IF ContainsAny(food_name, {"sup", "borsch", "schi", "pohlebk"})
        THEN IF Contains(food_name, "tarelk")
             THEN << Portion("exact", 300, "plate") >>
             ELSE ThreeSizes(200, 300, 400)
        ELSE IF ContainsAny(food_name, {"kash", "ovsyank", "grechk", "ris"})
        THEN IF Contains(food_name, "tarelk")
             THEN << Portion("exact", 200, "plate of porridge") >>
             ELSE ThreeSizes(150, 200, 250)
        ELSE IF numbers # <<>>
        THEN << Portion("exact", qty * 100, "qty portions") >>
        ELSE ThreeSizes(100, 200, 300)

-----------------------------------------------------------------------------
(* NutritionAnalyzer._process_analysis_result *)

NotFoodResult(analysis) ==
    [is_food |-> FALSE,
     food_name |-> EmptyName,
     description |-> Get(analysis, "description", "no food on image"),
     portion_options |-> <<>>,
     nutrition_per_100g |-> [n \in Nutrients |-> 0]]

ClampNutrientUnbounded(nutrient, value) == Max(0, value)

ClampNutrient(nutrient, value) ==
    IF nutrient = "calories" THEN Max(0, Min(value, 900))
    ELSE Max(0, Min(value, 100))

ClampWeight(weight) == Max(50, Min(weight, 1000))

HasSizeAndWeight(p) == "size" \in DOMAIN p /\ "weight" \in DOMAIN p

NormalizedPortion(p) ==
    Portion(p.size, ClampWeight(p.weight), Get(p, "description", "size portion"))

ProcessAnalysisResult(analysis) ==
    IF ~Get(analysis, "is_food", FALSE)
    THEN NotFoodResult(analysis)
    ELSE
      LET food_name == Get(analysis, "food_name", UnknownDish)
          nutrition == Get(analysis, "nutrition_per_100g", EmptyDict)
          given     == Get(analysis, "portion_options", <<>>)
          portions  == IF given = <<>>
                       THEN GenerateSmartDefaultPortions(food_name)
                       ELSE given
          kept      == SelectSeq(portions, HasSizeAndWeight)
          options   == [i \in 1..Len(kept) |-> NormalizedPortion(kept[i])]
      IN  [is_food |-> TRUE,
           food_name |-> food_name,
           description |-> Get(analysis, "description", "description unavailable"),
           portion_options |->
               IF options = <<>>
               THEN << Portion("exact", 200, "standard portion") >>
               ELSE options,
           nutrition_per_100g |->
               [n \in Nutrients |-> ClampNutrient(n, Get(nutrition, n, 0))]]

-----------------------------------------------------------------------------
(* NutritionAnalyzer.calculate_nutrition_for_portion.  round(x, 1) of      *)
(* x = rate * weight / 100 is the nearest tenth; n = rate * weight is x    *)
(* times 100, so the total in tenths is n / 10 rounded, ties to even.      *)
(* Python rounds the binary double it computed, which agrees with this     *)
(* unless x is a decimal tie (n ends in 5) that the double does not hold   *)
(* exactly.  The rates of the model are whole numbers and its weights are  *)
(* even (n never ends in 5) or multiples of 25 (weight / 100 and the tie   *)
(* k.25 or k.75 are exact doubles), so that the two agree.                 *)

RoundDivTruncate(n, d) == n \div d

RoundDiv(n, d) ==
    LET q == n \div d
        r == n % d
    IN  IF 2 * r < d THEN q
        ELSE IF 2 * r > d THEN q + 1
        ELSE IF q % 2 = 0 THEN q ELSE q + 1

CalculateNutritionForPortion(nutrition_per_100g, portion_weight) ==
    [total_calories |-> RoundDiv(nutrition_per_100g["calories"] * portion_weight, 10),
     total_protein  |-> RoundDiv(nutrition_per_100g["protein"] * portion_weight, 10),
     total_fat      |-> RoundDiv(nutrition_per_100g["fat"] * portion_weight, 10),
     total_carbs    |-> RoundDiv(nutrition_per_100g["carbs"] * portion_weight, 10),
     portion_weight |-> portion_weight]

-----------------------------------------------------------------------------
(* The analysis oracle and LangGraphService._parse_food_analysis_response. *)
(* An oracle response is the API failing (kind "error"), text in which no  *)
(* JSON object is found (kind "noise"), or text holding the JSON object    *)
(* payload (kind "json").                                                  *)

OracleError == [kind |-> "error"]

OracleNoise == [kind |-> "noise"]

OracleJson(payload) == [kind |-> "json", payload |-> payload]

ParseFailureAnalysis ==
    [is_food |-> FALSE,
     food_name |-> EmptyName,
     description |-> "analysis error",
     portion_options |-> <<>>,
     nutrition_per_100g |-> [n \in Nutrients |-> 0]]

ParseFoodAnalysisResponse(resp) ==
    IF resp.kind = "json" THEN resp.payload ELSE ParseFailureAnalysis

(* analyze_food_text_with_langgraph / analyze_food_photo_with_langgraph:   *)
(* any exception of the agent call is re-raised.                           *)
Raised == [raised |-> TRUE]

Returned(value) == [raised |-> FALSE, value |-> value]

AnalyzeWithLanggraph(resp) ==
    IF resp.kind = "error" THEN Raised
    ELSE Returned(ParseFoodAnalysisResponse(resp))

-----------------------------------------------------------------------------
(* FoodInputAgent._validate_food_analysis: TRUE when no ValueError is      *)
(* raised.                                                                 *)

DenyList == {"neizvestnoe blyudo", "neopredelennoe blyudo", "", "kak dela"}

RequiredFields ==
    {"food_name", "description", "portion_options", "nutrition_per_100g"}

SumNutrition(nutrition) ==
    Get(nutrition, "calories", 0) + Get(nutrition, "protein", 0)
        + Get(nutrition, "fat", 0) + Get(nutrition, "carbs", 0)

ValidateFoodAnalysis(analysis) ==
    /\ ~("is_food" \in DOMAIN analysis /\ analysis["is_food"] = FALSE)
    /\ RequiredFields \subseteq DOMAIN analysis
    /\ analysis["food_name"].text \notin DenyList
    /\ Nutrients \subseteq DOMAIN analysis["nutrition_per_100g"]
    /\ SumNutrition(analysis["nutrition_per_100g"]) # 0
    /\ Len(analysis["portion_options"]) # 0

(* FoodInputAgent.process_food_input *)
NotFoodResponse == [not_food |-> TRUE, message |-> "could not determine dish"]

ClarificationResponse ==
    [needs_clarification |-> TRUE,
     food_name |-> FoodName("neopredelennoe blyudo", {}, <<>>),
     description |-> "based on input",
     portion_options |-> <<>>,
     clarification_message |-> "need more details"]

ProcessFoodInput(input_analysis, resp) ==
    LET analysis_type == input_analysis["analysis_type"]
        got == AnalyzeWithLanggraph(resp)
    IN  IF analysis_type \in {"exact", "approximate"}
        THEN IF got.raised THEN NotFoodResponse
             ELSE IF ValidateFoodAnalysis(got.value) THEN got.value
             ELSE NotFoodResponse
        ELSE IF analysis_type = "need_clarification"
        THEN ClarificationResponse
        ELSE NotFoodResponse

(* Whether process_food_input reaches the analysis oracle at all. *)
CallsOracle(input_analysis) ==
    input_analysis["analysis_type"] \in {"exact", "approximate"}

-----------------------------------------------------------------------------
(* RedisService.cache_food_analysis / get_cached_food_analysis.  The cache *)
(* is a dict key -> [value, ttl]; value is the JSON text, ttl the hours    *)
(* left of the setex expiry.  A failed redis call is caught inside the     *)
(* service (the write returns False, the read None).                       *)

ExpireHours == 24

JsonDumps(value) == << "json", value >>

JsonLoads(text) == text[2]

TextKey(food_description, portion_info) ==
    << "text", food_description, portion_info >>

PhotoKey(image, user_description) ==
    << "photo", image, user_description >>

CacheMiss == [hit |-> FALSE]

GetCachedFoodAnalysisNever(c, up, key, op_ok) == CacheMiss

GetCachedFoodAnalysis(c, up, key, op_ok) ==
    IF up /\ op_ok /\ key \in DOMAIN c
    THEN [hit |-> TRUE, value |-> JsonLoads(c[key].value)]
    ELSE CacheMiss

CacheFoodAnalysisDropped(c, up, key, analysis_data, op_ok) == c

CacheFoodAnalysisTorn(c, up, key, analysis_data, op_ok) ==
    IF up /\ op_ok
    THEN LET merged ==
               IF key \in DOMAIN c
               THEN [analysis_data EXCEPT !["portion_options"] =
                        JsonLoads(c[key].value)["portion_options"]]
               ELSE analysis_data
         IN  (key :> [value |-> JsonDumps(merged), ttl |-> ExpireHours]) @@ c
    ELSE c

CacheFoodAnalysis(c, up, key, analysis_data, op_ok) ==
    IF up /\ op_ok
    THEN (key :> [value |-> JsonDumps(analysis_data), ttl |-> ExpireHours]) @@ c
    ELSE c

(* NutritionAnalyzer.analyze_food_from_text / analyze_food_from_photo for  *)
(* the cache key `key` when the oracle would answer `resp`: what the call  *)
(* returns or that it raised, the cache it leaves, and whether the oracle  *)
(* was invoked.                                                            *)
AnalyzeFood(c, up, key, resp, get_ok, set_ok) ==
    LET cached == GetCachedFoodAnalysis(c, up, key, get_ok)
        got == AnalyzeWithLanggraph(resp)
        processed == ProcessAnalysisResult(got.value)
    IN  IF cached.hit
        THEN [raised |-> FALSE, value |-> cached.value, cache |-> c,
              invoked |-> FALSE]
        ELSE IF got.raised
        THEN [raised |-> TRUE, value |-> EmptyDict, cache |-> c,
              invoked |-> TRUE]
        ELSE [raised |-> FALSE, value |-> processed,
              cache |-> CacheFoodAnalysis(c, up, key, processed, set_ok),
              invoked |-> TRUE]

-----------------------------------------------------------------------------
(* FSMContext over MemoryStorage: a session is [state, data].              *)

None == "None"

TextSelectingMode == "TextInputStates:selecting_mode"

TextWaitingSimple == "TextInputStates:waiting_for_simple_text"

TextWaitingDetailed == "TextInputStates:waiting_for_detailed_text"

TextSelectingPortion == "TextInputStates:selecting_portion"

TextConfirming == "TextInputStates:confirming_nutrition"

UniSelectingPortion == "UniversalFoodStates:selecting_portion"

UniConfirming == "UniversalFoodStates:confirming_nutrition"

UniAwaitingClarification == "UniversalFoodStates:awaiting_clarification"

(* The stages of the conversation state machine. *)
AwaitingPortion == {TextSelectingPortion, UniSelectingPortion}

AwaitingConfirmation == {TextConfirming, UniConfirming}

Cleared == [state |-> None, data |-> EmptyDict]

UpdateData(s, upd) == [s EXCEPT !.data = upd @@ s.data]

SetState(s, st) == [s EXCEPT !.state = st]

(* The outcome of a handler body: the session it leaves, and whether an    *)
(* exception left the body.                                                *)
Done(s) == [session |-> s, raised |-> FALSE]

Throws(s) == [session |-> s, raised |-> TRUE]

PortionRenderable(p) == {"size", "weight", "description"} \subseteq DOMAIN p

AllRenderable(portion_options) ==
    \A i \in 1..Len(portion_options) : PortionRenderable(portion_options[i])

(* universal_food_input.show_portion_selection, with the nested           *)
(* show_nutrition_confirmation of the single exact portion.               *)
ShowPortionSelection(s, analysis) ==
    LET portion_options == Get(analysis, "portion_options", <<>>)
        selected_portion == portion_options[1]
        nutrition == CalculateNutritionForPortion(
                         analysis["nutrition_per_100g"], selected_portion["weight"])
        stored == UpdateData(s, [selected_portion |-> selected_portion,
                                 nutrition |-> nutrition])
    IN  IF portion_options = <<>> THEN Done(Cleared)
        ELSE IF Len(portion_options) = 1
                /\ Get(selected_portion, "size", "none") = "exact"
        THEN IF "weight" \notin DOMAIN selected_portion THEN Throws(s)
             ELSE IF "description" \notin DOMAIN selected_portion
             THEN Throws(stored)
             ELSE Done(SetState(stored, UniConfirming))
        ELSE IF AllRenderable(portion_options)
        THEN Done(SetState(s, UniSelectingPortion))
        ELSE Throws(s)

(* universal_food_input.handle_clarification_input; its try/except         *)
(* swallows whatever the body raises.                                      *)
ClarificationBody(s, user_input, short, input_analysis, resp) ==
    LET food_analysis == ProcessFoodInput(input_analysis, resp)
        stored == UpdateData(s, [analysis |-> food_analysis,
                                 input_method |-> "text_universal",
                                 original_input |-> user_input,
                                 input_analysis |-> input_analysis])
    IN  IF short THEN s
        ELSE IF \/ ~input_analysis["is_food_related"]
                \/ input_analysis["analysis_type"] = "need_clarification"
        THEN s
        ELSE ShowPortionSelection(stored, food_analysis).session

(* universal_food_input.handle_universal_text_input; its try/except       *)
(* swallows whatever the body raises.                                      *)
UniversalTextBody(s, user_input, short, input_analysis, resp) ==
    LET food_analysis == ProcessFoodInput(input_analysis, resp)
        stored == UpdateData(s, [analysis |-> food_analysis,
                                 input_method |-> "text_universal",
                                 original_input |-> user_input,
                                 input_analysis |-> input_analysis])
    IN  IF short THEN s
        ELSE IF ~input_analysis["is_food_related"] THEN s
        ELSE IF Get(food_analysis, "not_food", FALSE) THEN s
        ELSE IF Get(food_analysis, "needs_clarification", FALSE)
        THEN SetState(s, UniAwaitingClarification)
        ELSE ShowPortionSelection(stored, food_analysis).session

(* universal_food_input.handle_universal_photo_input, given what          *)
(* analyze_food_from_photo did (an AnalyzeFood outcome).                   *)
UniversalPhotoBody(s, too_big, file_id, user_description, outcome) ==
    LET food_analysis == outcome.value
        stored == UpdateData(s, [analysis |-> food_analysis,
                                 input_method |-> "photo_universal",
                                 original_input |-> << "photo", user_description >>,
                                 photo_file_id |-> file_id,
                                 user_description |-> user_description])
    IN  IF too_big THEN s
        ELSE IF outcome.raised THEN s
        ELSE IF ~Get(food_analysis, "is_food", FALSE) THEN s
        ELSE ShowPortionSelection(stored, food_analysis).session

(* text_input.process_text_input with show_text_portion_selection, given  *)
(* what analyze_food_from_text did.                                        *)
ProcessTextInput(s, food_description, outcome) ==
    LET analysis == outcome.value
        stored == UpdateData(s, [analysis |-> analysis,
                                 input_method |-> "text",
                                 original_description |-> food_description])
    IN  IF outcome.raised THEN Cleared
        ELSE IF "food_name" \in DOMAIN analysis
                /\ AllRenderable(analysis["portion_options"])
        THEN SetState(stored, TextSelectingPortion)
        ELSE Cleared

-----------------------------------------------------------------------------
(* handle_portion_selection / handle_text_portion_selection.  The index is *)
(* int(callback.data.split(":")[1]); Python indexes a list from the end    *)
(* for a negative index and raises IndexError below -len.                  *)

IndexRejected(portion_index, n) == portion_index >= n

PyIndexable(portion_index, n) == -n <= portion_index /\ portion_index < n

PyItem(list, portion_index) ==
    IF portion_index >= 0 THEN list[portion_index + 1]
    ELSE list[Len(list) + portion_index + 1]

PortionSelection(s, portion_index, confirming) ==
    LET analysis == Get(s.data, "analysis", EmptyDict)
        portion_options == Get(analysis, "portion_options", <<>>)
        selected_portion == PyItem(portion_options, portion_index)
        nutrition == CalculateNutritionForPortion(
                         analysis["nutrition_per_100g"], selected_portion["weight"])
        stored == UpdateData(s, [selected_portion |-> selected_portion,
                                 nutrition |-> nutrition])
    IN  IF IndexRejected(portion_index, Len(portion_options)) THEN Done(s)
        ELSE IF ~PyIndexable(portion_index, Len(portion_options)) THEN Throws(s)
        ELSE IF "nutrition_per_100g" \notin DOMAIN analysis
                \/ "weight" \notin DOMAIN selected_portion
        THEN Throws(s)
        ELSE IF "description" \notin DOMAIN selected_portion
                \/ "food_name" \notin DOMAIN analysis
        THEN Throws(stored)
        ELSE Done(SetState(stored, confirming))

(* confirm_nutrition_entry / confirm_text_nutrition_entry: the entry that  *)
(* create_food_entry is asked to write, when the handler gets that far.    *)
TotalKeys == {"total_calories", "total_protein", "total_fat", "total_carbs"}

CanBuildEntry(data) ==
    LET analysis == Get(data, "analysis", EmptyDict)
        selected_portion == Get(data, "selected_portion", EmptyDict)
        nutrition == Get(data, "nutrition", EmptyDict)
    IN  /\ {"food_name", "nutrition_per_100g"} \subseteq DOMAIN analysis
        /\ {"size", "weight"} \subseteq DOMAIN selected_portion
        /\ Nutrients \subseteq DOMAIN analysis["nutrition_per_100g"]
        /\ TotalKeys \subseteq DOMAIN nutrition

FoodEntry(user_id, data, photo_file_id, input_method) ==
    [user_id |-> user_id,
     food_name |-> data["analysis"]["food_name"],
     portion_size |-> data["selected_portion"]["size"],
     portion_weight |-> data["selected_portion"]["weight"],
     per_100g |-> [n \in Nutrients |-> data["analysis"]["nutrition_per_100g"][n]],
     totals |-> [k \in TotalKeys |-> data["nutrition"][k]],
     photo_file_id |-> photo_file_id,
     input_method |-> input_method,
     ai_analysis |-> data["analysis"]]

UniversalEntry(user_id, data) ==
    FoodEntry(user_id, data, Get(data, "photo_file_id", None),
              Get(data, "input_method", "text_universal"))

TextEntry(user_id, data) == FoodEntry(user_id, data, None, "text")

(* The session a confirm handler leaves.  Both the success path and the    *)
(* except path end in state.clear().                                       *)
AfterConfirm(s, saved) == Cleared

(* change_portion_selection / change_text_portion_selection *)
ChangePortion(s, selecting) ==
    LET analysis == Get(s.data, "analysis", EmptyDict)
    IN  IF {"food_name", "nutrition_per_100g", "portion_options"}
               \subseteq DOMAIN analysis
           /\ AllRenderable(analysis["portion_options"])
        THEN SetState(s, selecting)
        ELSE s

-----------------------------------------------------------------------------
(* The dispatcher: main.py includes the routers start, photo_analysis,     *)
(* text_input, diary, chat, profile, universal_food_input in this order;   *)
(* the first handler whose filters match an update takes it, and an update *)
(* no handler matches is dropped.  PhotoAnalysisStates are set only inside *)
(* handle_text_portion_selection, which overwrites them before it returns. *)

HandlerNoStateFilter(event, state) ==
    CASE event \in {"cancel", "main_menu"} -> "cancel_action"
      [] event = "add_food_photo" -> "start_photo_analysis"
      [] event = "add_food_text" -> "start_text_input"
      [] event = "text_mode_simple" -> "start_simple_text_input"
      [] event = "text_mode_detailed" -> "start_detailed_text_input"
      [] event = "select_portion" -> "handle_portion_selection"
      [] event = "confirm_nutrition" -> "confirm_nutrition_entry"
      [] event = "change_portion" -> "change_portion_selection"
      [] event = "text" -> "handle_universal_text_input"
      [] event = "photo" -> "handle_universal_photo_input"
      [] event = "slash_text" -> "handle_clarification_input"
      [] OTHER -> "unhandled"

Handler(event, state) ==
    CASE event \in {"cancel", "main_menu"} -> "cancel_action"
      [] event = "add_food_photo" -> "start_photo_analysis"
      [] event = "add_food_text" -> "start_text_input"
      [] event = "text_mode_simple" /\ state = TextSelectingMode
            -> "start_simple_text_input"
      [] event = "text_mode_detailed" /\ state = TextSelectingMode
            -> "start_detailed_text_input"
      [] event = "select_portion" /\ state = TextSelectingPortion
            -> "handle_text_portion_selection"
      [] event = "select_portion" /\ state = UniSelectingPortion
            -> "handle_portion_selection"
      [] event = "confirm_nutrition" /\ state = TextConfirming
            -> "confirm_text_nutrition_entry"
      [] event = "confirm_nutrition" /\ state = UniConfirming
            -> "confirm_nutrition_entry"
      [] event = "change_portion" /\ state = TextConfirming
            -> "change_text_portion_selection"
      [] event = "change_portion" /\ state = UniConfirming
            -> "change_portion_selection"
      [] event = "text" /\ state = TextWaitingSimple -> "handle_simple_text_input"
      [] event = "text" /\ state = TextWaitingDetailed
            -> "handle_detailed_text_input"
      [] event = "text" -> "handle_universal_text_input"
      [] event = "photo" -> "handle_universal_photo_input"
      [] event = "slash_text" /\ state = TextWaitingSimple
            -> "handle_simple_text_input"
      [] event = "slash_text" /\ state = TextWaitingDetailed
            -> "handle_detailed_text_input"
      [] event = "slash_text" /\ state = UniAwaitingClarification
            -> "handle_clarification_input"
      [] OTHER -> "unhandled"

-----------------------------------------------------------------------------
(* Bounds and inputs *)

MaxRecords == 1

MaxUpdates == 5

OracleCap == 2

MaxIndex == 3

(* Telegram users.  The session storage is keyed by (chat, user); the     *)
(* middleware hands the sender's id to the handler.                        *)
Users == {"u1", "u2"}

(* The user whose updates the one-user specifications deliver. *)
Senders == {"u1"}

(* Message texts: the stripped text and whether len(text) < 2. *)
UserTexts ==
    { [text |-> "x", short |-> TRUE],
      [text |-> "ris 200g", short |-> FALSE] }

(* helpers.extract_numbers_from_text as used by handle_detailed_text_input: *)
(* the portion_info string built from the units found, "" for None.         *)
DetailedPortionInfo(text) == IF text = "ris 200g" THEN "200.0g" ELSE ""

(* What FoodInputAgent.analyze_user_input returns for a text: the input is *)
(* not food related, or it is with one of the four analysis types.         *)
InputAnalysis(related, analysis_type, text) ==
    [is_food_related |-> related, analysis_type |-> analysis_type,
     food_description |-> text, portion_info |-> "", original_input |-> text]

InputAnalyses(text) ==
    { InputAnalysis(FALSE, "not_food", text) } \cup
    { InputAnalysis(TRUE, t, text) :
        t \in {"exact", "approximate", "need_clarification", "not_food"} }

Banan == FoodName("banan", {"banan"}, <<>>)

GoodRates == [calories |-> 89, protein |-> 1, fat |-> 0, carbs |-> 23]

PayloadThreeSizes ==
    [is_food |-> TRUE, food_name |-> Banan, description |-> "fruit",
     portion_options |-> ThreeSizes(120, 240, 360),
     nutrition_per_100g |-> GoodRates]

PayloadExact ==
    [is_food |-> TRUE, food_name |-> FoodName("ris 125g", {"ris"}, <<125>>),
     description |-> "rice",
     portion_options |-> << Portion("exact", 125, "125 g") >>,
     nutrition_per_100g |->
         [calories |-> 130, protein |-> 3, fat |-> 0, carbs |-> 28]]

PayloadOutOfRange ==
    [is_food |-> TRUE, food_name |-> FoodName("maslo", {}, <<>>),
     description |-> "butter",
     portion_options |-> << Portion("small", 20, "spoon"),
                            Portion("large", 5000, "bucket") >>,
     nutrition_per_100g |->
         [calories |-> 5000, protein |-> 150, fat |-> -3, carbs |-> 101]]

PayloadNotFood ==
    [is_food |-> FALSE, food_name |-> EmptyName, description |-> "not food",
     portion_options |-> <<>>,
     nutrition_per_100g |-> [n \in Nutrients |-> 0]]

(* Two portion options, the second without a description. *)
PayloadBarePortion ==
    [is_food |-> TRUE, food_name |-> FoodName("sup", {"sup"}, <<>>),
     description |-> "soup",
     portion_options |-> << Portion("small", 200, "half a plate"),
                            [size |-> "medium", weight |-> 300] >>,
     nutrition_per_100g |->
         [calories |-> 40, protein |-> 2, fat |-> 1, carbs |-> 5]]

OracleResponses ==
    { OracleError, OracleNoise } \cup
    { OracleJson(p) : p \in { PayloadThreeSizes, PayloadExact, PayloadOutOfRange,
                              PayloadNotFood, PayloadBarePortion } }

(* Photos: file id, content and whether file_size > max_photo_size. *)
Photos ==
    { [file_id |-> "f1", image |-> "img1", too_big |-> FALSE],
      [file_id |-> "f2", image |-> "img2", too_big |-> TRUE] }

Captions == {"", "borsch"}

PortionIndexes == (0 - MaxIndex - 1)..MaxIndex

-----------------------------------------------------------------------------
(* State *)

(* What analyze_user_input answered in the step, when the step ran it. *)
NoClass == [run |-> FALSE]

Classified(input_analysis) ==
    [run |-> TRUE, related |-> input_analysis["is_food_related"],
     type |-> input_analysis["analysis_type"]]

StepOf(event, user, handler, index, db_ok, resp, class) ==
    [event |-> event, user |-> user, handler |-> handler, index |-> index,
     db_ok |-> db_ok, resp |-> resp, class |-> class, from |-> None]

Step(event, user, handler, index, db_ok, resp) ==
    StepOf(event, user, handler, index, db_ok, resp, NoClass)

NoStep == Step("none", "none", "none", 0, TRUE, "none")

NoCall == [fn |-> "none"]

(* The state once on_startup has run; RedisService.connect left a client   *)
(* (up) or, redis being optional, none.                                     *)
Started(up) ==
    /\ fsm = [u \in Users |-> Cleared]
    /\ records = <<>>
    /\ cache = <<>>
    /\ redis_up = up
    /\ oracle = <<>>
    /\ last = NoStep
    /\ handled = 0
    /\ call = NoCall
    /\ tasks = {}

(* The conversation is explored on a bot that started without redis, so    *)
(* that every analysis comes from the oracle; the cache is the subject of  *)
(* SpecCache.                                                              *)
Init == Started(FALSE)

(* One more invocation of the analysis oracle for a fingerprint. *)
Invoked(o, key) == (key :> Min(Get(o, key, 0) + 1, OracleCap)) @@ o

TakenClassifiedSharedSession(u, event, h, s, index, db_ok, resp, class) ==
    /\ handled < MaxUpdates
    /\ Handler(event, fsm[u].state) = h
    /\ handled' = handled + 1
    /\ fsm' = [v \in Users |-> s]
    /\ last' = [StepOf(event, u, h, index, db_ok, resp, class)
                    EXCEPT !.from = fsm[u].state]

(* One update of user u taken by handler h, leaving session s. *)
TakenClassified(u, event, h, s, index, db_ok, resp, class) ==
    /\ handled < MaxUpdates
    /\ Handler(event, fsm[u].state) = h
    /\ handled' = handled + 1
    /\ fsm' = [fsm EXCEPT ![u] = s]
    /\ last' = [StepOf(event, u, h, index, db_ok, resp, class)
                    EXCEPT !.from = fsm[u].state]

Taken(u, event, h, s, index, db_ok, resp) ==
    TakenClassified(u, event, h, s, index, db_ok, resp, NoClass)

-----------------------------------------------------------------------------
(* Handlers, each run to completion before the next update is taken        *)

CancelBodyKeepsData(s) == SetState(s, None)

(* start.cancel_action and start.show_main_menu: state.clear(), then the   *)
(* main menu is shown.                                                     *)
CancelBody(s) == Cleared

CancelAction(u) ==
    \E event \in {"cancel", "main_menu"} :
        /\ Taken(u, event, "cancel_action", CancelBody(fsm[u]), 0, TRUE, "none")
        /\ UNCHANGED <<records, cache, redis_up, oracle, call, tasks>>

StartPhotoAnalysis(u) ==
    /\ Taken(u, "add_food_photo", "start_photo_analysis", Cleared, 0, TRUE, "none")
    /\ UNCHANGED <<records, cache, redis_up, oracle, call, tasks>>

StartTextInput(u) ==
    /\ Taken(u, "add_food_text", "start_text_input",
             SetState(fsm[u], TextSelectingMode), 0, TRUE, "none")
    /\ UNCHANGED <<records, cache, redis_up, oracle, call, tasks>>

StartSimpleTextInput(u) ==
    /\ Taken(u, "text_mode_simple", "start_simple_text_input",
             SetState(fsm[u], TextWaitingSimple), 0, TRUE, "none")
    /\ UNCHANGED <<records, cache, redis_up, oracle, call, tasks>>

StartDetailedTextInput(u) ==
    /\ Taken(u, "text_mode_detailed", "start_detailed_text_input",
             SetState(fsm[u], TextWaitingDetailed), 0, TRUE, "none")
    /\ UNCHANGED <<records, cache, redis_up, oracle, call, tasks>>

(* The outcomes of one redis call: there is none to fail without a client. *)
RedisOutcomes == IF redis_up THEN BOOLEAN ELSE {TRUE}

(* The oracle answers only when it is asked. *)
NoResponse == [kind |-> "none"]

Answers(asked) == IF asked THEN OracleResponses ELSE {NoResponse}

HandleUniversalTextInput(u) ==
    \E t \in UserTexts :
      \E ia \in InputAnalyses(t.text) :
        \E resp \in Answers(~t.short /\ ia["is_food_related"] /\ CallsOracle(ia)) :
          /\ TakenClassified(u, "text", "handle_universal_text_input",
                   UniversalTextBody(fsm[u], t.text, t.short, ia, resp),
                   0, TRUE, resp.kind,
                   IF t.short THEN NoClass ELSE Classified(ia))
          /\ UNCHANGED <<records, cache, redis_up, oracle, call, tasks>>

HandleUniversalPhotoInput(u) ==
    \E photo \in Photos, caption \in Captions,
       get_ok \in RedisOutcomes, set_ok \in RedisOutcomes :
      LET key == PhotoKey(photo.image, caption)
          hit == GetCachedFoodAnalysis(cache, redis_up, key, get_ok).hit
      IN  \E resp \in Answers(~photo.too_big /\ ~hit) :
            LET outcome == AnalyzeFood(cache, redis_up, key, resp, get_ok, set_ok)
            IN  /\ Taken(u, "photo", "handle_universal_photo_input",
                         UniversalPhotoBody(fsm[u], photo.too_big, photo.file_id,
                                            caption, outcome),
                         0, TRUE, resp.kind)
                /\ cache' = IF photo.too_big THEN cache ELSE outcome.cache
                /\ UNCHANGED <<records, redis_up, oracle, call, tasks>>

(* Texts that start with "/" and are no command: the stripped text and    *)
(* whether len(text) < 2.                                                  *)
SlashTexts ==
    { [text |-> "/", short |-> TRUE],
      [text |-> "/ris 200g", short |-> FALSE] }

HandleClarificationInput(u) ==
    \E t \in SlashTexts :
      \E ia \in InputAnalyses(t.text) :
        \E resp \in Answers(~t.short /\ ia["is_food_related"] /\ CallsOracle(ia)) :
          /\ TakenClassified(u, "slash_text", "handle_clarification_input",
                   ClarificationBody(fsm[u], t.text, t.short, ia, resp),
                   0, TRUE, resp.kind,
                   IF t.short THEN NoClass ELSE Classified(ia))
          /\ UNCHANGED <<records, cache, redis_up, oracle, call, tasks>>

(* handle_simple_text_input / handle_detailed_text_input *)
HandleMenuTextInput(u) ==
    \E t \in UserTexts, get_ok \in RedisOutcomes, set_ok \in RedisOutcomes,
       h \in {"handle_simple_text_input", "handle_detailed_text_input"} :
      LET portion_info == IF h = "handle_simple_text_input" THEN ""
                          ELSE DetailedPortionInfo(t.text)
          key == TextKey(t.text, portion_info)
          hit == GetCachedFoodAnalysis(cache, redis_up, key, get_ok).hit
      IN  \E resp \in Answers(~t.short /\ ~hit) :
            LET outcome == AnalyzeFood(cache, redis_up, key, resp, get_ok, set_ok)
            IN  /\ Taken(u, "text", h,
                         IF t.short THEN fsm[u]
                         ELSE ProcessTextInput(fsm[u], t.text, outcome),
                         0, TRUE, resp.kind)
                /\ cache' = IF t.short THEN cache ELSE outcome.cache
                /\ UNCHANGED <<records, redis_up, oracle, call, tasks>>

HandlePortionSelection(u) ==
    \E portion_index \in PortionIndexes,
       h \in {"handle_portion_selection", "handle_text_portion_selection"} :
        /\ Taken(u, "select_portion", h,
                 PortionSelection(fsm[u], portion_index,
                     IF h = "handle_portion_selection"
                     THEN UniConfirming ELSE TextConfirming).session,
                 portion_index, TRUE, "none")
        /\ UNCHANGED <<records, cache, redis_up, oracle, call, tasks>>

ConfirmNutritionEntry(u) ==
    \E db_ok \in BOOLEAN,
       h \in {"confirm_nutrition_entry", "confirm_text_nutrition_entry"} :
      LET data == fsm[u].data
          saved == CanBuildEntry(data) /\ db_ok
          entry == IF h = "confirm_nutrition_entry"
                   THEN UniversalEntry(u, data) ELSE TextEntry(u, data)
      IN  /\ Len(records) < MaxRecords
          /\ Taken(u, "confirm_nutrition", h, AfterConfirm(fsm[u], saved),
                   0, db_ok, "none")
          /\ records' = IF saved THEN Append(records, entry) ELSE records
          /\ UNCHANGED <<cache, redis_up, oracle, call, tasks>>

ChangePortionSelection(u) ==
    \E h \in {"change_portion_selection", "change_text_portion_selection"} :
        /\ Taken(u, "change_portion", h,
                 ChangePortion(fsm[u],
                     IF h = "change_portion_selection"
                     THEN UniSelectingPortion ELSE TextSelectingPortion),
                 0, TRUE, "none")
        /\ UNCHANGED <<records, cache, redis_up, oracle, call, tasks>>

(* A callback no handler's filters match: the dispatcher drops it. *)
Unhandled(u) ==
    \E event \in {"select_portion", "confirm_nutrition", "change_portion",
                  "text_mode_simple", "text_mode_detailed", "slash_text"} :
        /\ Taken(u, event, "unhandled", fsm[u], 0, TRUE, "none")
        /\ UNCHANGED <<records, cache, redis_up, oracle, call, tasks>>

Next ==
    \/ \E u \in Senders :
          \/ CancelAction(u)
          \/ StartPhotoAnalysis(u)
          \/ StartTextInput(u)
          \/ StartSimpleTextInput(u)
          \/ StartDetailedTextInput(u)
          \/ HandleUniversalTextInput(u)
          \/ HandleUniversalPhotoInput(u)
          \/ HandleMenuTextInput(u)
          \/ HandleClarificationInput(u)
          \/ HandlePortionSelection(u)
          \/ ConfirmNutritionEntry(u)
          \/ ChangePortionSelection(u)
          \/ Unhandled(u)

Spec == Init /\ [][Next]_vars

-----------------------------------------------------------------------------
(* The pure functions of NutritionAnalyzer, called on their own: call      *)
(* holds the function, its arguments and what it returned.                 *)

PureNames ==
    { Banan,
      FoodName("20 bananov", {"banan"}, <<20>>),
      FoodName("0 yablok", {"yablok"}, <<0>>),
      FoodName("hleb", {"hleb"}, <<>>),
      FoodName("kusochek hleba", {"kusochek", "hleb"}, <<>>),
      FoodName("stakan moloka", {"stakan"}, <<>>),
      FoodName("kruzhka chaya", {"kruzhk"}, <<>>),
      FoodName("butylka vody", {"butylk"}, <<>>),
      FoodName("sup", {"sup"}, <<>>),
      FoodName("tarelka supa", {"tarelk", "sup"}, <<>>),
      FoodName("kasha", {"kash"}, <<>>),
      FoodName("tarelka kashi", {"tarelk", "kash"}, <<>>),
      FoodName("30 kotlet", {}, <<30>>),
      FoodName("plov", {}, <<>>) }

PurePortionLists ==
    { <<>>,
      ThreeSizes(120, 240, 360),
      << Portion("small", 20, "spoon"), Portion("large", 5000, "bucket") >>,
      << Portion("exact", -10, "negative") >>,
      << [size |-> "exact", weight |-> 300] >>,
      << [size |-> "small", description |-> "no weight"] >>,
      << [weight |-> 100], Portion("exact", 49, "just below"),
         Portion("exact", 1001, "just above") >> }

PureRates ==
    { [calories |-> c, protein |-> p, fat |-> f, carbs |-> b] :
        c \in {-5, 0, 89, 900, 901, 5000}, p \in {-1, 0, 100, 150},
        f \in {0, 101}, b \in {23} }
    \cup { EmptyDict, [calories |-> 5000], [protein |-> 200, carbs |-> -7] }

PureFoodPayloads ==
    { [is_food |-> TRUE, food_name |-> n, description |-> "d",
       portion_options |-> po, nutrition_per_100g |-> r] :
        n \in PureNames, po \in PurePortionLists, r \in PureRates }

(* The oracle lists the larger portion first. *)
PayloadLargeFirst ==
    [is_food |-> TRUE, food_name |-> Banan, description |-> "fruit",
     portion_options |-> << Portion("large", 360, "3 pieces"),
                            Portion("small", 120, "1 piece") >>,
     nutrition_per_100g |-> GoodRates]

PurePayloads ==
    PureFoodPayloads
    \cup { PayloadLargeFirst,
           PayloadNotFood, ParseFailureAnalysis, EmptyDict, [is_food |-> TRUE],
           [is_food |-> TRUE, nutrition_per_100g |-> [calories |-> 5000]],
           [food_name |-> Banan, description |-> "fruit",
            portion_options |-> ThreeSizes(120, 240, 360),
            nutrition_per_100g |-> GoodRates] }

(* Rates and weights for calculate_nutrition_for_portion: whole numbers,   *)
(* the weights even or multiples of 25 (see RoundDiv).                     *)
PureRateValues == {0, 1, 3, 7, 23, 89, 130, 900}

PureWeights == {20, 25, 36, 75, 122, 125, 250, 1000}

CallProcessAnalysisResult ==
    \E analysis \in PurePayloads :
        /\ call = NoCall
        /\ call' = [fn |-> "_process_analysis_result", args |-> << analysis >>,
                    result |-> ProcessAnalysisResult(analysis)]
        /\ UNCHANGED <<fsm, records, cache, redis_up, oracle, last, handled, tasks>>

CallCalculateNutritionForPortion ==
    \E c \in PureRateValues, p \in PureRateValues, f \in {0, 1}, b \in {0, 23},
       portion_weight \in PureWeights :
      LET nutrition_per_100g ==
              [calories |-> c, protein |-> p, fat |-> f, carbs |-> b]
      IN  /\ call = NoCall
          /\ call' = [fn |-> "calculate_nutrition_for_portion",
                      args |-> << nutrition_per_100g, portion_weight >>,
                      result |-> CalculateNutritionForPortion(
                                     nutrition_per_100g, portion_weight)]
          /\ UNCHANGED <<fsm, records, cache, redis_up, oracle, last, handled, tasks>>

(* The cache key analyze_food_from_text builds.  A text is the sequence of *)
(* its characters; portion_info is None or a text.  desc_text is the       *)
(* f-string "{food_description}_{portion_info or ''}"; md5 is taken to be  *)
(* free of collisions, so the key is tagged desc_text.                     *)
NoHint == [given |-> FALSE]

Hint(text) == [given |-> TRUE, text |-> text]

DescText(food_description, portion_info) ==
    food_description \o << "_" >>
        \o (IF portion_info.given THEN portion_info.text ELSE << >>)

TextCacheKey(food_description, portion_info) ==
    << "text_", DescText(food_description, portion_info) >>

KeyDescriptions ==
    { << "r", "i", "s" >>, << "r", "i", "s", "_", "2" >> }

KeyHints ==
    { NoHint, Hint(<< >>), Hint(<< "g" >>), Hint(<< "2", "_", "g" >>) }

(* Two requests and the key each of them builds. *)
CallTextCacheKey ==
    /\ call = NoCall
    /\ \E d1 \in KeyDescriptions, d2 \in KeyDescriptions,
          p1 \in KeyHints, p2 \in KeyHints :
         call' = [fn |-> "text_cache_key",
                  args |-> << << d1, p1 >>, << d2, p2 >> >>,
                  result |-> << TextCacheKey(d1, p1), TextCacheKey(d2, p2) >>]
    /\ UNCHANGED <<fsm, records, cache, redis_up, oracle, last, handled, tasks>>

(* The caller takes the result. *)
Return ==
    /\ call # NoCall
    /\ call' = NoCall
    /\ UNCHANGED <<fsm, records, cache, redis_up, oracle, last, handled, tasks>>

PureNext ==
    \/ CallProcessAnalysisResult
    \/ CallCalculateNutritionForPortion
    \/ CallTextCacheKey
    \/ Return

SpecPure == Init /\ [][PureNext]_vars

-----------------------------------------------------------------------------
(* The analysis cache: analyze_food_from_text and analyze_food_from_photo  *)
(* called one after the other (no two calls overlap), with redis connected *)
(* or not, and the expiry of entries.  oracle counts the invocations of    *)
(* the analysis oracle per fingerprint since the fingerprint's entry last  *)
(* expired, up to OracleCap.                                               *)

CacheInit == \E up \in BOOLEAN : Started(up)

CacheTexts == { << "banan", "" >>, << "ris 200g", "200.0g" >> }

CachePhotos == { << "img1", "borsch" >> }

CacheResponses ==
    { OracleError, OracleNoise, OracleJson(PayloadThreeSizes),
      OracleJson(PayloadOutOfRange) }

AnalyzeCall(fn, key, resp, get_ok, set_ok) ==
    LET outcome == AnalyzeFood(cache, redis_up, key, resp, get_ok, set_ok)
    IN  /\ cache' = outcome.cache
        /\ oracle' = IF outcome.invoked THEN Invoked(oracle, key) ELSE oracle
        /\ call' = [fn |-> fn, key |-> key, get_ok |-> get_ok, set_ok |-> set_ok,
                    invoked |-> outcome.invoked, resp |-> resp.kind,
                    raised |-> outcome.raised, value |-> outcome.value]
        /\ UNCHANGED <<fsm, records, redis_up, last, handled, tasks>>

AnalyzeFoodFromText ==
    \E t \in CacheTexts, get_ok \in RedisOutcomes, set_ok \in RedisOutcomes :
      LET key == TextKey(t[1], t[2])
          hit == GetCachedFoodAnalysis(cache, redis_up, key, get_ok).hit
      IN  \E resp \in IF hit THEN {NoResponse} ELSE CacheResponses :
            AnalyzeCall("analyze_food_from_text", key, resp, get_ok, set_ok)

AnalyzeFoodFromPhoto ==
    \E ph \in CachePhotos, get_ok \in RedisOutcomes, set_ok \in RedisOutcomes :
      LET key == PhotoKey(ph[1], ph[2])
          hit == GetCachedFoodAnalysis(cache, redis_up, key, get_ok).hit
      IN  \E resp \in IF hit THEN {NoResponse} ELSE CacheResponses :
            AnalyzeCall("analyze_food_from_photo", key, resp, get_ok, set_ok)

(* The redis expiry: the setex ttl of one entry runs out, and a new TTL    *)
(* window of its fingerprint begins.                                        *)
Expire ==
    \E key \in DOMAIN cache :
        /\ cache' = [k \in DOMAIN cache \ {key} |-> cache[k]]
        /\ oracle' = [k \in DOMAIN oracle \ {key} |-> oracle[k]]
        /\ call' = [fn |-> "expire", key |-> key]
        /\ UNCHANGED <<fsm, records, redis_up, last, handled, tasks>>

CacheNext == AnalyzeFoodFromText \/ AnalyzeFoodFromPhoto \/ Expire

SpecCache == CacheInit /\ [][CacheNext]_vars

-----------------------------------------------------------------------------
(* Concurrent dispatch: start_polling handles every update in a task of    *)
(* its own, so a handler suspended at an await can be overtaken by the     *)
(* handler of the user's next update.  handle_universal_text_input is      *)
(* split at the await that follows state.update_data (the sending of the   *)
(* portion keyboard in show_portion_selection); the other handlers run as  *)
(* in Spec.                                                                *)

MaxTasks == 2

(* handle_universal_text_input up to and including state.update_data. *)
UniversalTextStore(u) ==
    \E t \in UserTexts :
      \E ia \in InputAnalyses(t.text) :
        \E resp \in Answers(~t.short /\ ia["is_food_related"] /\ CallsOracle(ia)) :
          LET food_analysis == ProcessFoodInput(ia, resp)
              suspends == /\ ~t.short
                          /\ ia["is_food_related"]
                          /\ ~Get(food_analysis, "not_food", FALSE)
                          /\ ~Get(food_analysis, "needs_clarification", FALSE)
              stored == UpdateData(fsm[u], [analysis |-> food_analysis,
                                            input_method |-> "text_universal",
                                            original_input |-> t.text,
                                            input_analysis |-> ia])
          IN  /\ Cardinality(tasks) < MaxTasks
              /\ TakenClassified(u, "text", "handle_universal_text_input",
                       IF suspends THEN stored
                       ELSE UniversalTextBody(fsm[u], t.text, t.short, ia, resp),
                       0, TRUE, resp.kind,
                       IF t.short THEN NoClass ELSE Classified(ia))
              /\ tasks' = IF suspends
                          THEN tasks \cup {[user |-> u, analysis |-> food_analysis]}
                          ELSE tasks
              /\ UNCHANGED <<records, cache, redis_up, oracle, call>>

(* The rest of the handler: show_portion_selection on the session as it is *)
(* when the task resumes.                                                   *)
UniversalTextShow ==
    \E task \in tasks :
        /\ fsm' = [fsm EXCEPT ![task.user] =
                      ShowPortionSelection(fsm[task.user], task.analysis).session]
        /\ tasks' = tasks \ {task}
        /\ last' = Step("resume", task.user, "show_portion_selection", 0, TRUE, "none")
        /\ UNCHANGED <<records, cache, redis_up, oracle, handled, call>>

ConcNext ==
    \/ UniversalTextShow
    \/ \E u \in Senders :
          \/ UniversalTextStore(u)
          \/ HandlePortionSelection(u)
          \/ ConfirmNutritionEntry(u)
          \/ ChangePortionSelection(u)
          \/ CancelAction(u)

SpecConc == Init /\ [][ConcNext]_vars

(* What the bot does when no update arrives.  Every handler is started by  *)
(* an update; the only steps the program takes on its own are the          *)
(* resumptions of its suspended tasks, which asyncio schedules fairly.     *)
(* The dispatcher is built with MemoryStorage() and nothing else: no timer *)
(* or expiry acts on a session.  The updates of a behaviour are finitely   *)
(* many (MaxUpdates), so every behaviour ends with no further user events. *)
SpecLive == Init /\ [][ConcNext]_vars /\ WF_vars(UniversalTextShow)

-----------------------------------------------------------------------------
(* One meal confirmed by concurrent taps: start_polling handles every      *)
(* callback in a task of its own and the dispatcher has no per-user lock.  *)
(* confirm_nutrition_entry is split at its awaits: the dispatcher's state  *)
(* filter and the answering of the callback, state.get_data, and the       *)
(* database write followed by state.clear().  The user sends texts until   *)
(* the first confirm is tapped, so that every confirm task and every       *)
(* record belongs to the one session that was awaiting confirmation.       *)

ConfirmTask(id, u, phase, data) ==
    [id |-> id, user |-> u, phase |-> phase, data |-> data]

(* The state filter matches and the task waits in safe_answer_callback. *)
ConfirmStart(u) ==
    /\ Cardinality(tasks) < MaxTasks
    /\ Taken(u, "confirm_nutrition", "confirm_nutrition_entry", fsm[u],
             0, TRUE, "none")
    /\ tasks' = tasks \cup {ConfirmTask(handled, u, "answered", EmptyDict)}
    /\ UNCHANGED <<records, cache, redis_up, oracle, call>>

(* data = await state.get_data() *)
ConfirmRead ==
    \E task \in tasks :
        /\ task.phase = "answered"
        /\ tasks' = (tasks \ {task}) \cup
                {ConfirmTask(task.id, task.user, "read", fsm[task.user].data)}
        /\ last' = Step("resume", task.user, "confirm_nutrition_entry",
                        0, TRUE, "none")
        /\ UNCHANGED <<fsm, records, cache, redis_up, oracle, handled, call>>

(* create_food_entry with the data read, then state.clear() on either path *)
ConfirmWrite ==
    \E task \in tasks, db_ok \in BOOLEAN :
        LET saved == CanBuildEntry(task.data) /\ db_ok
        IN  /\ task.phase = "read"
            /\ records' = IF saved
                          THEN Append(records, UniversalEntry(task.user, task.data))
                          ELSE records
            /\ fsm' = [fsm EXCEPT ![task.user] = AfterConfirm(fsm[task.user], saved)]
            /\ tasks' = tasks \ {task}
            /\ last' = Step("resume", task.user, "confirm_nutrition_entry",
                            0, db_ok, "none")
            /\ UNCHANGED <<cache, redis_up, oracle, handled, call>>

DoubleNext ==
    \/ ConfirmRead
    \/ ConfirmWrite
    \/ \E u \in Senders :
          \/ tasks = {} /\ records = <<>> /\ HandleUniversalTextInput(u)
          \/ HandlePortionSelection(u)
          \/ ConfirmStart(u)
          \/ CancelAction(u)

SpecDouble == Init /\ [][DoubleNext]_vars

-----------------------------------------------------------------------------
(* Properties *)

(* The step just taken handled an update of user u with this event. *)
Handled(u, event) ==
    /\ handled' = handled + 1
    /\ last'.user = u
    /\ last'.event = event

StoredAnalysis(s) == Get(s.data, "analysis", EmptyDict)

StoredOptions(s) == Get(StoredAnalysis(s), "portion_options", <<>>)

TotalKey(nutrient) ==
    CASE nutrient = "calories" -> "total_calories"
      [] nutrient = "protein" -> "total_protein"
      [] nutrient = "fat" -> "total_fat"
      [] nutrient = "carbs" -> "total_carbs"

(* The ranges of a normalised analysis. *)
InRange(analysis) ==
    LET nutrition == Get(analysis, "nutrition_per_100g", EmptyDict)
        options == Get(analysis, "portion_options", <<>>)
    IN  /\ Get(nutrition, "calories", 0) \in 0..900
        /\ \A n \in Nutrients \ {"calories"} : Get(nutrition, n, 0) \in 0..100
        /\ \A i \in 1..Len(options) : Get(options[i], "weight", 50) \in 50..1000

(* total, in tenths, is rate * weight / 100 rounded to one decimal: it is  *)
(* within half a tenth of it, and even when exactly half a tenth away.     *)
NearestTenth(total, rate, weight) ==
    LET d == 10 * total - rate * weight
    IN  /\ -5 <= d /\ d <= 5
        /\ (d = 5 \/ d = -5) => total % 2 = 0

(* C1: under in-order delivery, a confirm event that arrives when the      *)
(* session is not in awaiting_confirmation creates no record and changes   *)
(* no session state; a confirm taken in awaiting_confirmation adds at most *)
(* one record and leaves the session cleared, so that a second confirm of  *)
(* the same meal is such a stray one.                                      *)
C1_StrayConfirmIsNoOp ==
    [][ \A u \in Users :
          Handled(u, "confirm_nutrition") =>
            IF fsm[u].state \in AwaitingConfirmation
            THEN /\ fsm'[u] = Cleared
                 /\ Len(records') <= Len(records) + 1
            ELSE /\ fsm' = fsm
                 /\ records' = records ]_vars

C1_Witness ==
    /\ last.event = "confirm_nutrition"
    /\ last.handler = "unhandled"
    /\ Len(records) = 1
    /\ \A u \in Users : fsm[u] = Cleared

(* C2: if the persistence write fails while confirm is handled, the        *)
(* session stays in awaiting_confirmation with its analysis, selected      *)
(* portion and nutrition intact.                                           *)
C2_FailedWriteKeepsSession ==
    [][ \A u \in Users :
          ( /\ Handled(u, "confirm_nutrition")
            /\ fsm[u].state \in AwaitingConfirmation
            /\ ~last'.db_ok )
          => fsm'[u] = fsm[u] ]_vars

(* C3: in awaiting_portion, a select-portion event whose index is not in   *)
(* 0..len(portion_options)-1 leaves the session unchanged; an index in     *)
(* range moves it to awaiting_confirmation with the option at that index   *)
(* selected.                                                               *)
C3_OnlyInRangeIndexSelects ==
    [][ \A u \in Users :
          ( /\ Handled(u, "select_portion")
            /\ fsm[u].state \in AwaitingPortion )
          => IF last'.index \in 0..(Len(StoredOptions(fsm[u])) - 1)
             THEN /\ fsm'[u].state \in AwaitingConfirmation
                  /\ Get(fsm'[u].data, "selected_portion", EmptyDict)
                        = StoredOptions(fsm[u])[last'.index + 1]
             ELSE fsm'[u] = fsm[u] ]_vars

(* C4: whenever a session is in awaiting_portion, its stored analysis is a *)
(* food analysis (is_food true) with a non-empty portion_options list.     *)
C4_PortionStageHoldsFood ==
    \A u \in Users :
        fsm[u].state \in AwaitingPortion =>
            /\ Get(StoredAnalysis(fsm[u]), "is_food", FALSE) = TRUE
            /\ StoredOptions(fsm[u]) # <<>>

(* C5: when the oracle answers a text request with text that holds no JSON *)
(* object, the user's stage and stored session data after the handling     *)
(* equal those before it, in the universal and in the menu text flow.      *)
C5_NoiseLeavesSession ==
    [][ \A u \in Users :
          ( /\ Handled(u, "text")
            /\ last'.resp = "noise" )
          => fsm'[u] = fsm[u] ]_vars

(* C6: for every oracle payload with is_food true, the output of           *)
(* _process_analysis_result has calories per 100g in [0,900], protein, fat *)
(* and carbs in [0,100] and every portion weight in [50,1000], the         *)
(* generated default portions included; it has at least one portion.       *)
C6_NormalizedInRange ==
    ( /\ call.fn = "_process_analysis_result"
      /\ Get(call.args[1], "is_food", FALSE) = TRUE )
    => /\ InRange(call.result)
       /\ call.result["portion_options"] # <<>>
       /\ \A i \in 1..Len(call.result["portion_options"]) :
              "weight" \in DOMAIN call.result["portion_options"][i]
       /\ Nutrients \subseteq DOMAIN call.result["nutrition_per_100g"]

C6_Witness ==
    /\ call.fn = "_process_analysis_result"
    /\ call.args[1] =
          [is_food |-> TRUE, food_name |-> FoodName("hleb", {"hleb"}, <<>>),
           description |-> "d", portion_options |-> <<>>,
           nutrition_per_100g |->
               [calories |-> 5000, protein |-> 150, fat |-> 101, carbs |-> 23]]
    /\ call.result["nutrition_per_100g"] =
          [calories |-> 900, protein |-> 100, fat |-> 100, carbs |-> 23]
    /\ call.result["portion_options"][1]["weight"] = 50

(* The portion options of the payload that have both size and weight. *)
Supplied(analysis) ==
    SelectSeq(Get(analysis, "portion_options", <<>>), HasSizeAndWeight)

(* C30: for an oracle payload with is_food true whose portion list is      *)
(* empty or has no entry with both size and weight,                        *)
(* _process_analysis_result does not return an analysis (the caller has to *)
(* re-prompt), and every portion option of an analysis it returns is the   *)
(* normalized form of an option the oracle supplied.                       *)
C30_NoFabricatedPortion ==
    ( /\ call.fn = "_process_analysis_result"
      /\ Get(call.args[1], "is_food", FALSE) = TRUE )
    => LET supplied == Supplied(call.args[1])
           options == call.result["portion_options"]
       IN  /\ supplied # <<>>
           /\ \A i \in 1..Len(options) :
                 \E j \in 1..Len(supplied) :
                     options[i] = NormalizedPortion(supplied[j])

(* C35: whenever a normalized analysis carries two or more portion         *)
(* options, they are in non-decreasing order of weight, for every order in *)
(* which the oracle listed them.                                           *)
C35_PortionsAscending ==
    call.fn = "_process_analysis_result" =>
        LET options == call.result["portion_options"]
        IN  \A i \in 1..(Len(options) - 1) :
                options[i]["weight"] <= options[i + 1]["weight"]

(* C37: the text cache key is injective on its inputs before hashing: two  *)
(* requests with different (food_description, portion_info) pairs never    *)
(* build the same key, also when they differ only in where an underscore   *)
(* falls or in a missing portion hint against an empty one.                *)
C37_TextKeyInjective ==
    call.fn = "text_cache_key" =>
        (call.args[1] # call.args[2] => call.result[1] # call.result[2])

(* C7: every analysis held in a user's session satisfies the ranges        *)
(* calories in [0,900], macros in [0,100], portion weights in [50,1000],   *)
(* whichever flow stored it.                                               *)
C7_StoredAnalysesInRange ==
    \A u \in Users :
        "analysis" \in DOMAIN fsm[u].data => InRange(fsm[u].data["analysis"])

(* C8: calculate_nutrition_for_portion returns for each nutrient           *)
(* round(per_100g * weight / 100, 1), echoes the portion weight and        *)
(* returns nothing else.                                                   *)
C8_TotalsAreRounded ==
    call.fn = "calculate_nutrition_for_portion" =>
        /\ DOMAIN call.result = TotalKeys \cup {"portion_weight"}
        /\ call.result["portion_weight"] = call.args[2]
        /\ \A n \in Nutrients :
              NearestTenth(call.result[TotalKey(n)], call.args[1][n], call.args[2])

C8_Witness ==
    /\ call.fn = "calculate_nutrition_for_portion"
    /\ call.args[1]["calories"] = 3
    /\ call.args[1]["protein"] = 89
    /\ call.args[2] = 122
    /\ call.result["total_calories"] = 37
    /\ call.result["total_protein"] = 1086
    /\ call.result["portion_weight"] = 122

(* C9: every record written is internally consistent: its portion is one   *)
(* of the portion options of the analysis whose per-100g rates it carries, *)
(* and each total is round(rate * portion_weight / 100, 1) for those       *)
(* rates, for any interleaving of one user's updates handled as tasks.     *)
C9_RecordsConsistent ==
    \A i \in 1..Len(records) :
        LET r == records[i]
            options == Get(r.ai_analysis, "portion_options", <<>>)
        IN  /\ \E j \in 1..Len(options) :
                  /\ Get(options[j], "size", "none") = r.portion_size
                  /\ Get(options[j], "weight", 0) = r.portion_weight
            /\ \A n \in Nutrients :
                  r.totals[TotalKey(n)] = RoundDiv(r.per_100g[n] * r.portion_weight, 10)

(* C10 as stated: for calls with the same fingerprint inside the TTL       *)
(* window that do not overlap, the analysis oracle is invoked at most once *)
(* in total.                                                               *)
C10_OracleAtMostOnce ==
    \A key \in DOMAIN oracle : oracle[key] <= 1

AnalyzeFns == {"analyze_food_from_text", "analyze_food_from_photo"}

(* C10 as amended: a call whose cache read succeeds and finds a live entry *)
(* of its fingerprint invokes no oracle, writes nothing and returns the    *)
(* stored analysis; every other call invokes the oracle, and when the      *)
(* oracle call returns and the cache write succeeds the result is stored   *)
(* under the fingerprint with the 24 hour expiry.                          *)
C10_CacheAnswersWhenReadable ==
    [][ call'.fn \in AnalyzeFns =>
          LET key == call'.key
              readable == redis_up /\ call'.get_ok /\ key \in DOMAIN cache
          IN  /\ readable =>
                    /\ ~call'.invoked /\ ~call'.raised
                    /\ oracle' = oracle /\ cache' = cache
                    /\ call'.value = JsonLoads(cache[key].value)
              /\ ~readable => call'.invoked
              /\ (~readable /\ ~call'.raised /\ redis_up /\ call'.set_ok) =>
                    /\ key \in DOMAIN cache'
                    /\ cache'[key] = [value |-> JsonDumps(call'.value),
                                      ttl |-> ExpireHours]
              /\ (~readable /\ ~(~call'.raised /\ redis_up /\ call'.set_ok)) =>
                    cache' = cache ]_vars

C10_Witness ==
    /\ call.fn \in AnalyzeFns
    /\ ~call.invoked
    /\ Get(oracle, call.key, 0) = 1
    /\ call.key \in DOMAIN cache
    /\ call.value = JsonLoads(cache[call.key].value)
    /\ call.value["is_food"]


-----------------------------------------------------------------------------
(* RedisService called on its own: cache_food_analysis and                 *)
(* get_cached_food_analysis one after the other, with redis connected or   *)
(* not, any single redis call failing, and the expiry of entries.          *)

RedisKeys ==
    { TextKey("banan", ""), TextKey("ris 200g", "200.0g"),
      PhotoKey("img1", "borsch") }

RedisValues ==
    { ProcessAnalysisResult(PayloadThreeSizes),
      ProcessAnalysisResult(PayloadNotFood), EmptyDict }

(* What cache_food_analysis returns: True once setex has succeeded. *)
CacheFoodAnalysisReturns(up, op_ok) == up /\ op_ok

CallCacheFoodAnalysis ==
    \E key \in RedisKeys, analysis_data \in RedisValues, op_ok \in RedisOutcomes :
        /\ cache' = CacheFoodAnalysis(cache, redis_up, key, analysis_data, op_ok)
        /\ call' = [fn |-> "cache_food_analysis", key |-> key,
                    value |-> analysis_data, op_ok |-> op_ok,
                    returned |-> CacheFoodAnalysisReturns(redis_up, op_ok)]
        /\ UNCHANGED <<fsm, records, redis_up, oracle, last, handled, tasks>>

(* The call made before this one: its function and key. *)
CallSummary(c) == [fn |-> c.fn, key |-> Get(c, "key", << >>)]

CallGetCachedFoodAnalysis ==
    \E key \in RedisKeys, op_ok \in RedisOutcomes :
        /\ call' = [fn |-> "get_cached_food_analysis", key |-> key,
                    op_ok |-> op_ok, after |-> CallSummary(call),
                    returned |-> GetCachedFoodAnalysis(cache, redis_up, key, op_ok)]
        /\ UNCHANGED <<fsm, records, cache, redis_up, oracle, last, handled, tasks>>

RedisNext == CallCacheFoodAnalysis \/ CallGetCachedFoodAnalysis \/ Expire

SpecRedis == CacheInit /\ [][RedisNext]_vars

(* The step is a get_cached_food_analysis(key) that directly follows       *)
(* cache_food_analysis(key, a).                                            *)
GetFollowsPut ==
    /\ call.fn = "cache_food_analysis"
    /\ call'.fn = "get_cached_food_analysis"
    /\ call'.key = call.key

(* The step is a get_cached_food_analysis of a key that holds no live      *)
(* entry: never written, or expired since.                                 *)
GetOfAbsentKey ==
    /\ call'.fn = "get_cached_food_analysis"
    /\ call'.key \notin DOMAIN cache

(* C11 as stated: cache_food_analysis(k, a) followed by                    *)
(* get_cached_food_analysis(k) before the TTL elapses returns a value      *)
(* equal to a; after the TTL has elapsed, and for a key never written, get *)
(* returns None.                                                           *)
C11_PutThenGet ==
    [][ /\ GetFollowsPut => call'.returned = [hit |-> TRUE, value |-> call.value]
        /\ GetOfAbsentKey => call'.returned = CacheMiss ]_vars

(* C11 as amended: when cache_food_analysis(k, a) returned True and the    *)
(* read of get_cached_food_analysis(k) that follows it does not fail, get  *)
(* returns a value equal to a; a get whose read fails, and a get of a key  *)
(* that was never written or whose entry has expired, returns None.        *)
C11_PutThenGetWhenStored ==
    [][ /\ (GetFollowsPut /\ call.returned /\ call'.op_ok) =>
              call'.returned = [hit |-> TRUE, value |-> call.value]
        /\ (GetFollowsPut /\ ~call'.op_ok) => call'.returned = CacheMiss
        /\ GetOfAbsentKey => call'.returned = CacheMiss ]_vars

C11_Witness ==
    /\ call.fn = "get_cached_food_analysis"
    /\ call.after = [fn |-> "cache_food_analysis", key |-> call.key]
    /\ call.returned = [hit |-> TRUE,
                        value |-> ProcessAnalysisResult(PayloadThreeSizes)]
    /\ call.key \in DOMAIN cache
    /\ cache[call.key].ttl = ExpireHours


-----------------------------------------------------------------------------
(* FoodInputAgent: the classification of a text.  A text is the sequence   *)
(* of its characters.  Every Cyrillic letter is written as one Latin       *)
(* letter (privet, sup, ris, el, salat, sredniy, g for the gram sign), so  *)
(* that lengths and positions are those of the original; the word and      *)
(* pattern lists of the source are restricted to the entries with such a   *)
(* spelling, and the entries left out occur in none of the texts used.     *)

Digits == {"0", "2", "5"}

CyrillicLower ==
    {"a", "b", "d", "e", "g", "h", "i", "k", "l", "m", "n", "o", "p", "r",
     "s", "t", "u", "v", "y", "z"}

CyrillicUpper == {"S", "E", "P"}

Whitespace == {" "}

(* Characters of the class of the last non-food pattern. *)
Punctuation == {"!", ",", ".", "?"}

(* \w *)
WordChars == CyrillicLower \cup CyrillicUpper \cup Digits

(* str.lower *)
Lower(c) ==
    CASE c = "S" -> "s"
      [] c = "E" -> "e"
      [] c = "P" -> "p"
      [] OTHER -> c

TextLower(text) == [i \in 1..Len(text) |-> Lower(text[i])]

(* str.strip *)
Strip(text) ==
    LET kept == {i \in 1..Len(text) : text[i] \notin Whitespace}
        first == CHOOSE i \in kept : \A j \in kept : i <= j
        final == CHOOSE i \in kept : \A j \in kept : j <= i
    IN  IF kept = {} THEN << >> ELSE SubSeq(text, first, final)

(* word occurs in text at position i *)
OccursAt(text, i, word) ==
    /\ i >= 1
    /\ i + Len(word) - 1 <= Len(text)
    /\ SubSeq(text, i, i + Len(word) - 1) = word

(* word in text *)
Occurs(text, word) == \E i \in 1..Len(text) : OccursAt(text, i, word)

(* re.search(r"^(word).*", text) *)
StartsWith(text, word) == OccursAt(text, 1, word)

(* \b after position j, which holds a word character *)
BoundaryAfter(text, j) == j = Len(text) \/ text[j + 1] \notin WordChars

(* re.search(r"\d+\s*(word)", text), followed by \b when bounded *)
NumberThen(text, word, bounded) ==
    \E i \in 1..Len(text), k \in 0..Len(text) :
        /\ text[i] \in Digits
        /\ \A s \in (i + 1)..(i + k) : s <= Len(text) /\ text[s] \in Whitespace
        /\ OccursAt(text, i + k + 1, word)
        /\ bounded => BoundaryAfter(text, i + k + Len(word))

(* re.search(r"(first)\s+(second)", text) *)
SpacedPair(text, first, second) ==
    \E i \in 1..Len(text), k \in 1..Len(text) :
        /\ OccursAt(text, i, first)
        /\ \A s \in (i + Len(first))..(i + Len(first) + k - 1) :
              s <= Len(text) /\ text[s] \in Whitespace
        /\ OccursAt(text, i + Len(first) + k, second)

NonFoodPrefixes ==
    { << "p", "r", "i", "v", "e", "t" >>,
      << "s", "p", "a", "s", "i", "b", "o" >>,
      << "p", "o", "k", "a" >>,
      << "p", "o", "m", "o", "g", "i" >> }

NonFoodWholeTexts ==
    { << "d", "a" >>,
      << "n", "e", "t" >>,
      << "p", "l", "o", "h", "o" >> }

(* _quick_food_detection: the text matches one of non_food_patterns. *)
NonFoodPattern(text) ==
    LET text_lower == Strip(TextLower(text))
    IN  \/ \E w \in NonFoodPrefixes : StartsWith(text_lower, w)
        \/ text_lower \in NonFoodWholeTexts
        \/ \A i \in 1..Len(text_lower) : text_lower[i] \in Punctuation

FoodKeywords ==
    { << "o", "b", "e", "d" >>,
      << "e", "l" >>,
      << "p", "o", "e", "l" >>,
      << "s", "u", "p" >>,
      << "s", "a", "l", "a", "t" >>,
      << "m", "o", "l", "o", "k", "o" >>,
      << "r", "i", "s" >>,
      << "b", "a", "n", "a", "n" >>,
      << "g", "r", "a", "m", "m" >>,
      << "s", "t", "a", "k", "a", "n" >>,
      << "t", "a", "r", "e", "l", "k", "a" >> }

Units == { << "g" >>,
  << "k", "g" >>,
  << "m", "l" >>,
  << "l" >> }

QuickCountNouns == { << "b", "a", "n", "a", "n" >>,
  << "p", "o", "m", "i", "d", "o", "r" >> }

QuickFoodDetectionFoodFirst(text) ==
    LET text_lower == Strip(TextLower(text))
    IN  \/ \E keyword \in FoodKeywords : Occurs(text_lower, keyword)
        \/ \E unit \in Units : NumberThen(text_lower, unit, TRUE)
        \/ \E noun \in QuickCountNouns : NumberThen(text_lower, noun, FALSE)

QuickFoodDetection(text) ==
    LET text_lower == Strip(TextLower(text))
    IN  IF NonFoodPattern(text)
        THEN FALSE
        ELSE \/ \E keyword \in FoodKeywords : Occurs(text_lower, keyword)
             \/ \E unit \in Units : NumberThen(text_lower, unit, TRUE)
             \/ \E noun \in QuickCountNouns : NumberThen(text_lower, noun, FALSE)

ExactCountNouns == { << "b", "a", "n", "a", "n" >>,
  << "p", "o", "m", "i", "d", "o", "r" >> }

Containers == { << "s", "t", "a", "k", "a", "n" >>,
  << "t", "a", "r", "e", "l", "k", "a" >>,
  << "b", "u", "t", "y", "l", "k", "a" >> }

Liquids == { << "m", "o", "l", "o", "k", "a" >>,
  << "v", "o", "d", "y" >>,
  << "s", "o", "k", "a" >>,
  << "s", "u", "p", "a" >> }

SizeIndicators == { << "s", "r", "e", "d", "n" >>,
  << "o", "g", "r", "o", "m", "n" >> }

VagueWords == { << "e", "d", "a" >>,
  << "b", "l", "u", "d", "o" >>,
  << "n", "e", "m", "n", "o", "g", "o" >> }

ExactPattern(text_lower) ==
    \/ \E unit \in Units : NumberThen(text_lower, unit, TRUE)
    \/ \E noun \in ExactCountNouns : NumberThen(text_lower, noun, FALSE)
    \/ \E c \in Containers, l \in Liquids : SpacedPair(text_lower, c, l)

SizePattern(text_lower) ==
    \E indicator \in SizeIndicators : Occurs(text_lower, indicator)

VaguePattern(stripped) ==
    \/ stripped \in VagueWords
    \/ /\ Len(stripped) \in 1..3
       /\ \A i \in 1..Len(stripped) : stripped[i] \in CyrillicLower

DeterminePortionTypeSizeFirst(text) ==
    LET text_lower == TextLower(text)
    IN  IF SizePattern(text_lower) THEN "approximate"
        ELSE IF ExactPattern(text_lower) THEN "exact"
        ELSE IF VaguePattern(Strip(text_lower)) THEN "need_clarification"
        ELSE "approximate"

DeterminePortionType(text) ==
    LET text_lower == TextLower(text)
    IN  IF ExactPattern(text_lower) THEN "exact"
        ELSE IF SizePattern(text_lower) THEN "approximate"
        ELSE IF VaguePattern(Strip(text_lower)) THEN "need_clarification"
        ELSE "approximate"

(* _extract_portion_info: the categories of patterns found in the text,    *)
(* None when there is none.                                                *)
ExtractPortionInfo(text) ==
    LET text_lower == TextLower(text)
        found ==
            {"weight" : u \in {u \in {<< "g" >>, << "k", "g" >>} :
                                   NumberThen(text_lower, u, FALSE)}}
            \cup {"volume" : u \in {u \in {<< "m", "l" >>, << "l" >>} :
                                   NumberThen(text_lower, u, FALSE)}}
            \cup {"pieces" : n \in {n \in ExactCountNouns :
                                   NumberThen(text_lower, n, FALSE)}}
            \cup {"containers" : c \in {c \in Containers : Occurs(text_lower, c)}}
            \cup {"sizes" : s \in {s \in SizeIndicators : Occurs(text_lower, s)}}
    IN  IF found = {} THEN None ELSE found

(* The answer of the classification oracle (self.llm.ainvoke): the call    *)
(* raises, or it returns a content: whether the content holds braces,      *)
(* whether the text between them parses as a JSON object and which, which  *)
(* of the fallback words the content holds, and its first 100 characters.  *)
LlmError == [kind |-> "error"]

LlmContent(head, braces, parses, object, words) ==
    [kind |-> "content", head |-> head, braces |-> braces, parses |-> parses,
     object |-> object, words |-> words]

(* Confidences in tenths. *)
ParseInputAnalysisNoConfidence(content) ==
    [is_food_related |-> FALSE, analysis_type |-> "not_food",
     food_description |-> "", portion_info |-> None, confidence |-> 0]

ParseInputAnalysis(content) ==
    IF content.braces /\ content.parses
    THEN [is_food_related |-> Get(content.object, "is_food_related", FALSE),
          analysis_type |-> Get(content.object, "analysis_type", "not_food"),
          food_description |-> Get(content.object, "food_description", ""),
          portion_info |-> Get(content.object, "portion_info", None),
          confidence |-> Get(content.object, "confidence", 0)]
    ELSE LET is_food == content.words # {}
         IN  [is_food_related |-> is_food,
              analysis_type |-> IF is_food THEN "approximate" ELSE "not_food",
              food_description |-> content.head,
              portion_info |-> None,
              confidence |-> 3]

(* analyze_input_node: the analysis it puts into the graph state. *)
AnalyzeInputNode(user_input, resp) ==
    IF ~QuickFoodDetection(user_input)
    THEN IF resp.kind = "error" THEN Raised
         ELSE Returned(ParseInputAnalysis(resp))
    ELSE Returned([is_food_related |-> TRUE,
                   analysis_type |-> DeterminePortionType(user_input),
                   food_description |-> user_input,
                   portion_info |-> ExtractPortionInfo(user_input),
                   confidence |-> 9])

(* Whether analyze_user_input reaches the classification oracle. *)
AsksLlm(user_input) == ~QuickFoodDetection(Strip(user_input))

AnalyzeUserInput(user_input, resp) ==
    LET result == AnalyzeInputNode(Strip(user_input), resp)
    IN  IF result.raised
        THEN [is_food_related |-> FALSE, analysis_type |-> "not_food",
              food_description |-> "", portion_info |-> None,
              confidence |-> 0, original_input |-> user_input]
        ELSE [is_food_related |-> result.value["is_food_related"],
              analysis_type |-> result.value["analysis_type"],
              food_description |-> result.value["food_description"],
              portion_info |-> result.value["portion_info"],
              confidence |-> result.value["confidence"],
              original_input |-> user_input]

-----------------------------------------------------------------------------
(* The classifier called on its own. *)

ClassifiedTexts ==
    { << "p", "r", "i", "v", "e", "t" >>,
      << "P", "r", "i", "v", "e", "t", ",", " ", "e", "l", " ", "s", "u", "p" >>,
      << "s", "p", "a", "s", "i", "b", "o" >>,
      << "d", "a" >>,
      << "!", "?" >>,
      << "p", "o", "k", "a" >>,
      << "n", "e", "t" >>,
      << "z", "z", "z" >>,
      << "v", "k", "u", "s", "n", "o" >>,
      << "d", "a", " ", "n", "e", "t" >>,
      << "5", " ", "z", "z", "z" >>,
      << "s", "u", "p" >>,
      << "S", "u", "p" >>,
      << "e", "l", "!" >>,
      << "e", "l" >>,
      << "s", "a", "l", "a", "t" >>,
      << "s", "u", "p", " ", "r", "i", "s" >>,
      << "s", "r", "e", "d", "n", "i", "y", " ", "s", "u", "p" >>,
      << "s", "r", "e", "d", "n", "i", "y", " ", "s", "u", "p", " ", "5", "g" >>,
      << "r", "i", "s", " ", "2", "0", "0", " ", "g" >>,
      << "5", "k", "g" >>,
      << "2", " ", "b", "a", "n", "a", "n" >>,
      << "s", "t", "a", "k", "a", "n", " ", "m", "o", "l", "o", "k", "a" >>,
      << "s", "t", "a", "k", "a", "n" >>,
      << "o", "g", "r", "o", "m", "n", "y", "y", " ", "o", "b", "e", "d" >>,
      << "5", " ", "g", "r", "a", "m", "m", " ", "r", "i", "s" >>,
      << "e", "l", " ", "2", "5", " ", "m", "l" >>,
      << "t", "a", "r", "e", "l", "k", "a", " ", " ", "s", "u", "p", "a" >> }

LlmObjects ==
    { [is_food_related |-> TRUE, analysis_type |-> "approximate",
       food_description |-> "food", portion_info |-> None, confidence |-> 8],
      [is_food_related |-> TRUE, analysis_type |-> "exact",
       food_description |-> "food", portion_info |-> "5g", confidence |-> 9],
      [is_food_related |-> TRUE, analysis_type |-> "need_clarification",
       food_description |-> "food", confidence |-> 5],
      [is_food_related |-> FALSE, analysis_type |-> "not_food",
       food_description |-> "", portion_info |-> None, confidence |-> 10],
      [analysis_type |-> "exact"],
      EmptyDict }

FallbackWords == {"eda", "bludo", "sel", "poel"}

LlmResponses ==
    { LlmError }
    \cup { LlmContent("json", TRUE, TRUE, o, {}) : o \in LlmObjects }
    \cup { LlmContent("text", FALSE, FALSE, EmptyDict, w) :
             w \in {{}, {"eda"}, {"sel", "poel"}} }
    \cup { LlmContent("broken", TRUE, FALSE, EmptyDict, w) : w \in {{}, {"bludo"}} }

CallAnalyzeUserInput ==
    \E user_input \in ClassifiedTexts :
      \E resp \in IF AsksLlm(user_input) THEN LlmResponses ELSE {NoResponse} :
        /\ call = NoCall
        /\ call' = [fn |-> "analyze_user_input", text |-> user_input,
                    asked |-> AsksLlm(user_input), resp |-> resp,
                    result |-> AnalyzeUserInput(user_input, resp)]
        /\ UNCHANGED <<fsm, records, cache, redis_up, oracle, last, handled, tasks>>

CallDeterminePortionType ==
    \E text \in ClassifiedTexts :
        /\ call = NoCall
        /\ call' = [fn |-> "_determine_portion_type", text |-> text,
                    result |-> DeterminePortionType(text)]
        /\ UNCHANGED <<fsm, records, cache, redis_up, oracle, last, handled, tasks>>

CallParseInputAnalysis ==
    \E resp \in LlmResponses \ {LlmError} :
        /\ call = NoCall
        /\ call' = [fn |-> "_parse_input_analysis", resp |-> resp,
                    result |-> ParseInputAnalysis(resp)]
        /\ UNCHANGED <<fsm, records, cache, redis_up, oracle, last, handled, tasks>>

ClassifyNext ==
    \/ CallAnalyzeUserInput
    \/ CallDeterminePortionType
    \/ CallParseInputAnalysis
    \/ Return

SpecClassify == Init /\ [][ClassifyNext]_vars


-----------------------------------------------------------------------------
(* Properties of the classifier *)

(* The text has a single token: no whitespace inside it. *)
SingleToken(text) == \A i \in 1..Len(text) : text[i] \notin Whitespace

FastPath == call.fn = "analyze_user_input" /\ ~call.asked

(* C12: when the input text matches a canonical non-food pattern           *)
(* (greeting, acknowledgement, yes/no, punctuation only), classification   *)
(* yields is_food_related false and analysis_type not_food without a call  *)
(* to the classification oracle.                                           *)
C12_NonFoodPatternRejectedLocally ==
    ( /\ call.fn = "analyze_user_input"
      /\ NonFoodPattern(call.text) )
    => /\ ~call.asked
       /\ call.result["is_food_related"] = FALSE
       /\ call.result["analysis_type"] = "not_food"

(* The text contains a known food noun, a meal-time word or a number+unit  *)
(* pattern.                                                                *)
FoodSignal(text) ==
    LET text_lower == Strip(TextLower(text))
    IN  \/ \E keyword \in FoodKeywords : Occurs(text_lower, keyword)
        \/ \E unit \in Units : NumberThen(text_lower, unit, TRUE)
        \/ \E noun \in QuickCountNouns : NumberThen(text_lower, noun, FALSE)

AcceptedLocally ==
    /\ ~call.asked
    /\ call.result["is_food_related"] = TRUE
    /\ call.result["confidence"] = 9
    /\ call.result["food_description"] = call.text

(* C29 as stated: whenever the input text contains a known food noun, a    *)
(* meal-time word or a number+unit pattern, classification returns         *)
(* is_food_related true with confidence 0.9 and the original text as       *)
(* food_description without an oracle call, also when the text starts with *)
(* a greeting or another non-food phrase.                                  *)
C29_FoodSignalAcceptedLocally ==
    (call.fn = "analyze_user_input" /\ FoodSignal(call.text)) => AcceptedLocally

(* C29 as amended: a text with such a food signal that matches no non-food *)
(* pattern is accepted that way without an oracle call; a text that        *)
(* matches a non-food pattern (it starts with a greeting or another listed *)
(* non-food phrase) is never accepted on the fast path, whatever food      *)
(* words follow.                                                           *)
C29_FoodSignalAcceptedUnlessNonFoodPattern ==
    call.fn = "analyze_user_input" =>
        /\ (FoodSignal(call.text) /\ ~NonFoodPattern(call.text)) => AcceptedLocally
        /\ NonFoodPattern(call.text) => call.asked

C29_Witness ==
    /\ call.fn = "analyze_user_input"
    /\ FoodSignal(call.text)
    /\ ~NonFoodPattern(call.text)
    /\ ~SingleToken(call.text)
    /\ AcceptedLocally

(* C13 as stated: on the fast lexical path the analysis type is exact when *)
(* an exact-measurement pattern is present, otherwise approximate when a   *)
(* size adjective is present, otherwise need_clarification when the input  *)
(* is a single token or has at most 3 characters, otherwise approximate.   *)
C13_PortionTypePriority ==
    FastPath =>
        LET text == Strip(call.text)
            low == TextLower(text)
        IN  call.result["analysis_type"] =
                IF ExactPattern(low) THEN "exact"
                ELSE IF SizePattern(low) THEN "approximate"
                ELSE IF SingleToken(text) \/ Len(text) <= 3
                     THEN "need_clarification"
                ELSE "approximate"

(* C13 as amended: on the fast lexical path the analysis type is exact     *)
(* when an exact-measurement pattern is present, also next to a size       *)
(* adjective; otherwise approximate when a size adjective is present;      *)
(* otherwise need_clarification exactly when the whole lowercased input is *)
(* one of the listed vague words or 1 to 3 Cyrillic letters; otherwise     *)
(* approximate.  No other value is produced.                               *)
C13_PortionTypePriorityVagueWord ==
    FastPath =>
        LET low == TextLower(Strip(call.text))
            letters == \A i \in 1..Len(low) : low[i] \in CyrillicLower
            vague == low \in VagueWords \/ (Len(low) <= 3 /\ letters)
            type == call.result["analysis_type"]
        IN  /\ type \in {"exact", "approximate", "need_clarification"}
            /\ ExactPattern(low) => type = "exact"
            /\ (~ExactPattern(low) /\ SizePattern(low)) => type = "approximate"
            /\ (~ExactPattern(low) /\ ~SizePattern(low)) =>
                  (type = "need_clarification" <=> vague)

C13_Witness ==
    /\ FastPath
    /\ ExactPattern(TextLower(call.text))
    /\ SizePattern(TextLower(call.text))
    /\ call.result["analysis_type"] = "exact"

ClassificationKeys ==
    {"is_food_related", "analysis_type", "food_description", "portion_info",
     "confidence", "original_input"}

(* C14: analyze_user_input always returns a classification result: when    *)
(* the oracle's answer has no parsable JSON object the result is that of   *)
(* the keyword heuristic with confidence 0.3, and when the oracle call     *)
(* fails it is not_food with is_food_related false and confidence 0.0.     *)
C14_ClassificationNeverFails ==
    call.fn = "analyze_user_input" =>
        LET result == call.result
            resp == call.resp
        IN  /\ DOMAIN result = ClassificationKeys
            /\ result["original_input"] = call.text
            /\ (call.asked /\ resp.kind = "content"
                  /\ ~(resp.braces /\ resp.parses)) =>
                  /\ result["confidence"] = 3
                  /\ result["is_food_related"] = (resp.words # {})
                  /\ result["analysis_type"] =
                        IF resp.words # {} THEN "approximate" ELSE "not_food"
            /\ (call.asked /\ resp.kind = "error") =>
                  /\ result["is_food_related"] = FALSE
                  /\ result["analysis_type"] = "not_food"
                  /\ result["confidence"] = 0

C14_Witness ==
    /\ call.fn = "analyze_user_input"
    /\ call.asked
    /\ call.resp.kind = "content"
    /\ call.resp.braces /\ ~call.resp.parses
    /\ call.resp.words # {}
    /\ call.result["confidence"] = 3
    /\ call.result["analysis_type"] = "approximate"


-----------------------------------------------------------------------------
(* Properties of the universal text flow *)

Idle(s) == s.state = None

(* The step classified the text as food with exact or approximate quantity. *)
ClassifiedAsFood(class) ==
    class.run /\ class.related /\ class.type \in {"exact", "approximate"}

ClassifiedAsUnclear(class) ==
    class.run /\ class.related /\ class.type = "need_clarification"

ClassifiedAsNotFood(class) ==
    class.run /\ (~class.related \/ class.type = "not_food")

(* process_food_input returned an analysis that passed                     *)
(* _validate_food_analysis: the handler stored it in the session.          *)
StoredValidAnalysis(u) ==
    /\ ClassifiedAsFood(last'.class)
    /\ last'.resp = "json"
    /\ "analysis" \in DOMAIN fsm'[u].data
    /\ fsm'[u].data # fsm[u].data

(* C15: from idle a text message classified not_food (or not food related) *)
(* leaves the stage idle and stores nothing; need_clarification moves to   *)
(* awaiting_clarification; exact or approximate with a valid analysis      *)
(* moves to awaiting_portion or, by the single-exact-portion shortcut, to  *)
(* awaiting_confirmation; the session reaches neither of these two stages  *)
(* unless the text was classified food related and exact or approximate.   *)
C15_TextFromIdle ==
    [][ \A u \in Users :
          ( Handled(u, "text") /\ Idle(fsm[u]) ) =>
            LET class == last'.class
            IN  /\ ClassifiedAsNotFood(class) => fsm'[u] = fsm[u]
                /\ ClassifiedAsUnclear(class) =>
                      fsm'[u] = SetState(fsm[u], UniAwaitingClarification)
                /\ StoredValidAnalysis(u) =>
                      fsm'[u].state \in AwaitingPortion \cup AwaitingConfirmation
                /\ fsm'[u].state \in AwaitingPortion \cup AwaitingConfirmation
                      => ClassifiedAsFood(class)
                /\ fsm'[u].state \in
                      {None, UniAwaitingClarification} \cup AwaitingPortion
                          \cup AwaitingConfirmation ]_vars

Clarifying(s) == s.state = UniAwaitingClarification

TextEvents == {"text", "slash_text"}

(* C16: in awaiting_clarification a text message classified                *)
(* need_clarification or not_food leaves the stage awaiting_clarification  *)
(* and the session as it is, however many such messages came before; a     *)
(* text message leaves that stage only when it is classified as food with  *)
(* exact or approximate quantity.                                          *)
C16_ClarificationLoop ==
    [][ \A u \in Users :
          ( /\ handled' = handled + 1
            /\ last'.user = u
            /\ last'.event \in TextEvents
            /\ Clarifying(fsm[u]) ) =>
              /\ ~ClassifiedAsFood(last'.class) => fsm'[u] = fsm[u]
              /\ ~Clarifying(fsm'[u]) => ClassifiedAsFood(last'.class) ]_vars

(* The same loop for the texts handle_universal_text_input takes (those    *)
(* that do not start with "/"): it holds.                                  *)
C16_ClarificationLoopPlainText ==
    [][ \A u \in Users :
          ( Handled(u, "text") /\ Clarifying(fsm[u]) ) =>
              /\ ~ClassifiedAsFood(last'.class) => fsm'[u] = fsm[u]
              /\ ~Clarifying(fsm'[u]) => ClassifiedAsFood(last'.class) ]_vars

(* The stage is left by nothing but a text classified as food or a cancel: *)
(* the buttons that start another flow leave it too.                       *)
C16_OnlyFoodOrCancelLeaves ==
    [][ \A u \in Users :
          ( /\ handled' = handled + 1
            /\ last'.user = u
            /\ Clarifying(fsm[u])
            /\ ~Clarifying(fsm'[u]) ) =>
              \/ last'.event \in TextEvents /\ ClassifiedAsFood(last'.class)
              \/ last'.event \in {"cancel", "main_menu"} ]_vars

-----------------------------------------------------------------------------
(* C17: a cancel event received in any stage (idle, awaiting_portion,      *)
(* awaiting_confirmation, awaiting_clarification) leaves the session idle  *)
(* with no stored data (no analysis, portion or nutrition) and creates no  *)
(* persistence record.                                                     *)
C17_CancelClears ==
    [][ \A u \in Users :
          Handled(u, "cancel") =>
            /\ fsm'[u].state = None
            /\ DOMAIN fsm'[u].data = {}
            /\ records' = records ]_vars

(* A cancel has just been handled in awaiting_confirmation. *)
C17_Witness ==
    \E u \in Users :
        /\ last.user = u
        /\ last.event = "cancel"
        /\ last.from \in AwaitingConfirmation
        /\ fsm[u] = Cleared

-----------------------------------------------------------------------------
(* The session fields that say where the analysed input came from. *)
Provenance == {"input_method", "original_input", "input_analysis",
               "photo_file_id", "user_description"}

SameOn(keys, d, e) ==
    \A k \in keys : /\ (k \in DOMAIN d) = (k \in DOMAIN e)
                    /\ k \in DOMAIN d => d[k] = e[k]

(* C18: a change-portion event in awaiting_confirmation moves the session  *)
(* to awaiting_portion of the same flow and leaves the stored analysis     *)
(* (food name, per-100g nutrition, portion options) and the input          *)
(* provenance unchanged; no oracle call is made and no record is created.  *)
C18_ChangePortionKeepsAnalysis ==
    [][ \A u \in Users :
          ( Handled(u, "change_portion")
            /\ fsm[u].state \in AwaitingConfirmation ) =>
              /\ fsm[u].state = UniConfirming
                    => fsm'[u].state = UniSelectingPortion
              /\ fsm[u].state = TextConfirming
                    => fsm'[u].state = TextSelectingPortion
              /\ SameOn({"analysis"} \cup Provenance, fsm[u].data, fsm'[u].data)
              /\ "analysis" \in DOMAIN fsm'[u].data
              /\ last'.resp = "none"
              /\ oracle' = oracle
              /\ records' = records ]_vars

(* The same, for a stored analysis whose portion options all carry size,   *)
(* weight and description: it holds.                                       *)
C18_ChangePortionRenderable ==
    [][ \A u \in Users :
          ( /\ Handled(u, "change_portion")
            /\ fsm[u].state \in AwaitingConfirmation
            /\ AllRenderable(Get(Get(fsm[u].data, "analysis", EmptyDict),
                                 "portion_options", <<>>)) ) =>
              /\ fsm'[u].state \in AwaitingPortion
              /\ fsm'[u].data = fsm[u].data
              /\ last'.resp = "none"
              /\ records' = records ]_vars

-----------------------------------------------------------------------------
SingleExact(portion_options) ==
    /\ Len(portion_options) = 1
    /\ Get(portion_options[1], "size", "none") = "exact"

(* The step of user u stored an analysis in the session. *)
StoresAnalysis(u) ==
    /\ handled' = handled + 1
    /\ last'.user = u
    /\ "analysis" \in DOMAIN fsm'[u].data
    /\ \/ "analysis" \notin DOMAIN fsm[u].data
       \/ fsm'[u].data["analysis"] # fsm[u].data["analysis"]

ValidIndex(index, portion_options) ==
    0 <= index /\ index < Len(portion_options)

(* awaiting_confirmation is entered without a select-portion event only   *)
(* by a step that received an analysis with exactly one portion option, of *)
(* size exact; the selected portion is that option and the nutrition is    *)
(* resolved from it.                                                       *)
EnteredWithoutSelect(u) ==
    ( /\ handled' = handled + 1
      /\ last'.user = u
      /\ last'.event # "select_portion"
      /\ fsm[u].state \notin AwaitingConfirmation
      /\ fsm'[u].state \in AwaitingConfirmation ) =>
        /\ last'.resp = "json"
        /\ SingleExact(StoredOptions(fsm'[u]))
        /\ fsm'[u].data["selected_portion"] = StoredOptions(fsm'[u])[1]
        /\ fsm'[u].data["nutrition"] =
              CalculateNutritionForPortion(
                  fsm'[u].data["analysis"]["nutrition_per_100g"],
                  StoredOptions(fsm'[u])[1]["weight"])

(* A step of one of these handlers that stores an analysis with exactly    *)
(* one portion option, of size exact, ends in awaiting_confirmation.       *)
SingleExactAdvances(u, handlers) ==
    ( /\ StoresAnalysis(u)
      /\ last'.handler \in handlers
      /\ SingleExact(StoredOptions(fsm'[u])) ) =>
        fsm'[u].state \in AwaitingConfirmation

(* A select-portion event leads to awaiting_confirmation only with an      *)
(* index of the stored portion options.                                    *)
SelectNeedsValidIndex(u) ==
    ( /\ Handled(u, "select_portion")
      /\ fsm[u].state \notin AwaitingConfirmation
      /\ fsm'[u].state \in AwaitingConfirmation ) =>
        ValidIndex(last'.index, StoredOptions(fsm[u]))

UniversalInputHandlers ==
    {"handle_universal_text_input", "handle_universal_photo_input",
     "handle_clarification_input"}

MenuTextHandlers == {"handle_simple_text_input", "handle_detailed_text_input"}

(* C19: a session reaches awaiting_confirmation without a select-portion   *)
(* event if and only if the newly stored analysis has exactly one portion  *)
(* option and that option's size is exact; then the selected portion is    *)
(* that option and the nutrition is resolved from it.  In every other case *)
(* awaiting_confirmation is reached only through a select-portion event    *)
(* with a valid index.                                                     *)
C19_ConfirmationEntry ==
    [][ \A u \in Users :
          /\ EnteredWithoutSelect(u)
          /\ SingleExactAdvances(u, UniversalInputHandlers \cup MenuTextHandlers)
          /\ SelectNeedsValidIndex(u) ]_vars

(* What holds of it: the shortcut is the only way into                     *)
(* awaiting_confirmation without a select-portion event, and the universal *)
(* flow always takes it.                                                   *)
C19_ShortcutUniversal ==
    [][ \A u \in Users :
          /\ EnteredWithoutSelect(u)
          /\ SingleExactAdvances(u, UniversalInputHandlers) ]_vars

(* The menu text flow shows the selection menu for a single exact option. *)
C19_ShortcutMenuText ==
    [][ \A u \in Users : SingleExactAdvances(u, MenuTextHandlers) ]_vars

-----------------------------------------------------------------------------
(* The session fields a handler that stores an analysis writes: those of   *)
(* the text handlers, those of the photo handler, and the two the          *)
(* single-exact shortcut adds.                                             *)
TextFields == {"analysis", "input_method", "original_input", "input_analysis"}

PhotoFields == {"analysis", "input_method", "original_input",
                "photo_file_id", "user_description"}

ShortcutFields == {"selected_portion", "nutrition"}

(* The fields a step that stored an analysis may leave in the session. *)
FreshFields(step, s) ==
    ( IF step.event = "photo" THEN PhotoFields ELSE TextFields )
      \cup ( IF SingleExact(StoredOptions(s)) THEN ShortcutFields ELSE {} )

(* The step of user u stored an analysis in the universal flow. *)
StoresUniversalAnalysis(u) ==
    /\ StoresAnalysis(u)
    /\ last'.handler \in UniversalInputHandlers

TextMethods == {"text", "text_universal"}

(* C20: when a new analysis is stored in a session, the session data is    *)
(* replaced: no field written by an earlier, unfinished flow               *)
(* (photo_file_id, user_description, selected portion, nutrition, original *)
(* input) survives; a record confirmed from a text input never carries the *)
(* photo_file_id of an earlier unconfirmed photo.                          *)
C20_NewAnalysisReplacesSession ==
    [][ /\ \A u \in Users :
            StoresUniversalAnalysis(u) =>
                DOMAIN fsm'[u].data \subseteq FreshFields(last', fsm'[u])
        /\ \A i \in 1..Len(records') :
            records'[i].input_method \in TextMethods =>
                records'[i].photo_file_id = None ]_vars

(* What holds: a step that stores an analysis writes the fields of its own *)
(* input, and leaves every other field of the session as it was.           *)
C20_NewAnalysisMergedIntoSession ==
    [][ \A u \in Users :
          StoresUniversalAnalysis(u) =>
            /\ FreshFields(last', fsm'[u]) \subseteq DOMAIN fsm'[u].data
            /\ \A k \in DOMAIN fsm[u].data \ FreshFields(last', fsm'[u]) :
                  /\ k \in DOMAIN fsm'[u].data
                  /\ fsm'[u].data[k] = fsm[u].data[k] ]_vars

(* The second sentence of C20 alone: a record whose input method is text   *)
(* carries no photo_file_id.                                               *)
C20_TextRecordHasNoPhoto ==
    \A i \in 1..Len(records) :
        records[i].input_method \in TextMethods =>
            records[i].photo_file_id = None

-----------------------------------------------------------------------------
(* Two users: the universal flow with the updates of both users delivered  *)
(* in any order, each handler run to completion.                           *)

MaxUserUpdates == 3

UsersNext ==
    /\ handled < MaxUserUpdates
    /\ \E u \in Users :
          \/ CancelAction(u)
          \/ HandleUniversalTextInput(u)
          \/ HandleUniversalPhotoInput(u)
          \/ HandlePortionSelection(u)
          \/ ConfirmNutritionEntry(u)
          \/ ChangePortionSelection(u)

SpecUsers == Init /\ [][UsersNext]_vars

(* C21: handling any event of user A leaves the stage and session data of  *)
(* every other user B unchanged, and every persistence record created by a *)
(* confirm carries the user id of the user who sent that confirm.          *)
C21_SessionsAreSeparate ==
    [][ \A a \in Users :
          ( handled' = handled + 1 /\ last'.user = a ) =>
            /\ \A b \in Users \ {a} : fsm'[b] = fsm[b]
            /\ records' # records =>
                  /\ last'.event = "confirm_nutrition"
                  /\ Len(records') = Len(records) + 1
                  /\ SubSeq(records', 1, Len(records)) = records
                  /\ records'[Len(records')].user_id = a ]_vars

(* u2 has confirmed a meal while u1 was in the middle of a flow. *)
C21_Witness ==
    /\ last.user = "u2"
    /\ last.event = "confirm_nutrition"
    /\ Len(records) = 1
    /\ records[1].user_id = "u2"
    /\ fsm["u1"].state \in AwaitingPortion \cup AwaitingConfirmation
    /\ fsm["u2"] = Cleared

-----------------------------------------------------------------------------
(* NutritionCalculator.  A profile is the TelegramUser's six fields.  An   *)
(* optional number (age, weight, height, and what the calculator returns)  *)
(* is Nothing for Python's None or Number(n); a missing text field is      *)
(* None.  Weight is in whole kilograms, height in centimetres.             *)
(* round(x, 0) leaves a whole number, held as an integer; grams and        *)
(* percentages, rounded to one decimal, are held in tenths.                *)

Nothing == <<>>

Number(n) == <<n>>

Value(x) == x[1]

(* ACTIVITY_MULTIPLIERS, in thousandths *)
ActivityMultipliers ==
    [sedentary |-> 1200, lightly_active |-> 1375, moderately_active |-> 1550,
     very_active |-> 1725, extremely_active |-> 1900]

(* GOAL_ADJUSTMENTS *)
GoalAdjustments ==
    [weight_loss |-> -500, weight_gain |-> 500, maintain_weight |-> 0]

(* Python truthiness: None and 0 are false, and so are None and "". *)
Truthy(x) == x # Nothing /\ Value(x) # 0

TruthyText(s) == s # None /\ s # ""

CalculateBmrUnrounded(user) ==
    LET bmr4 == 40 * Value(user.weight) + 25 * Value(user.height)
                    - 20 * Value(user.age)
    IN  IF ~( Truthy(user.weight) /\ Truthy(user.height)
              /\ Truthy(user.age) /\ TruthyText(user.gender) )
        THEN Nothing
        ELSE IF user.gender = "male" THEN Number((bmr4 + 20) \div 4)
        ELSE IF user.gender = "female" THEN Number((bmr4 - 644) \div 4)
        ELSE Nothing

(* calculate_bmr: bmr4 is the sum 10*weight + 6.25*height - 5*age in       *)
(* quarters; round(bmr, 0) rounds it to a whole number, ties to even.      *)
CalculateBmr(user) ==
    LET bmr4 == 40 * Value(user.weight) + 25 * Value(user.height)
                    - 20 * Value(user.age)
    IN  IF ~( Truthy(user.weight) /\ Truthy(user.height)
              /\ Truthy(user.age) /\ TruthyText(user.gender) )
        THEN Nothing
        ELSE IF user.gender = "male" THEN Number(RoundDiv(bmr4 + 20, 4))
        ELSE IF user.gender = "female" THEN Number(RoundDiv(bmr4 - 644, 4))
        ELSE Nothing

(* calculate_tdee *)
CalculateTdee(user) ==
    LET bmr == CalculateBmr(user)
    IN  IF ~Truthy(bmr) \/ ~TruthyText(user.activity_level) THEN Nothing
        ELSE IF user.activity_level \notin DOMAIN ActivityMultipliers
        THEN Nothing
        ELSE Number(RoundDiv(Value(bmr) * ActivityMultipliers[user.activity_level],
                             1000))

CalculateTargetCaloriesNoFloor(user) ==
    LET tdee == CalculateTdee(user)
    IN  IF ~Truthy(tdee) \/ ~TruthyText(user.goal) THEN Nothing
        ELSE Number(Value(tdee) + Get(GoalAdjustments, user.goal, 0))

(* calculate_target_calories *)
CalculateTargetCalories(user) ==
    LET tdee == CalculateTdee(user)
        goal_adjustment == Get(GoalAdjustments, user.goal, 0)
        min_calories == IF user.gender = "female" THEN 1200 ELSE 1500
    IN  IF ~Truthy(tdee) \/ ~TruthyText(user.goal) THEN Nothing
        ELSE Number(Max(Value(tdee) + goal_adjustment, min_calories))

CalculateMacrosCarbsBesideProtein(user) ==
    LET target == CalculateTargetCalories(user)
        target_calories == Value(target)
        protein_per_kg == IF user.goal = "weight_gain" THEN 22
                          ELSE IF user.goal = "weight_loss" THEN 20
                          ELSE 18
        protein_grams == Value(user.weight) * protein_per_kg
    IN  IF ~Truthy(target) \/ ~Truthy(user.weight) THEN Nothing
        ELSE Number(
             [calories |-> target_calories,
              protein |-> protein_grams,
              fat |-> RoundDiv(10 * target_calories, 36),
              carbs |-> RoundDiv(20 * target_calories - 8 * protein_grams, 8),
              protein_percent |-> RoundDiv(400 * protein_grams, target_calories),
              fat_percent |-> 250,
              carbs_percent |->
                  RoundDiv(750 * target_calories - 400 * protein_grams,
                           target_calories)])

(* calculate_macros: grams and percentages in tenths.  protein_per_kg is   *)
(* 2.2, 2.0 or 1.8, so the protein grams in tenths are 22, 20 or 18 times  *)
(* the weight; fat is 25% of the calories over 9 and the carbohydrates are *)
(* the remaining calories over 4.  Python rounds the binary double it      *)
(* computed: a decimal tie the double does not hold exactly goes to either *)
(* side there.  The profiles of the model produce no such tie.             *)
CalculateMacros(user) ==
    LET target == CalculateTargetCalories(user)
        target_calories == Value(target)
        protein_per_kg == IF user.goal = "weight_gain" THEN 22
                          ELSE IF user.goal = "weight_loss" THEN 20
                          ELSE 18
        protein_grams == Value(user.weight) * protein_per_kg
        fat_grams == RoundDiv(10 * target_calories, 36)
        carbs_grams == RoundDiv(15 * target_calories - 8 * protein_grams, 8)
    IN  IF ~Truthy(target) \/ ~Truthy(user.weight) THEN Nothing
        ELSE Number(
             [calories |-> target_calories,
              protein |-> protein_grams,
              fat |-> fat_grams,
              carbs |-> carbs_grams,
              protein_percent |-> RoundDiv(400 * protein_grams, target_calories),
              fat_percent |-> 250,
              carbs_percent |->
                  RoundDiv(750 * target_calories - 400 * protein_grams,
                           target_calories)])

(* The profiles the calculator is called with. *)
Ages == {Nothing, Number(0), Number(30), Number(44)}

Weights == {Nothing, Number(0), Number(55), Number(70)}

Heights == {Nothing, Number(0), Number(162), Number(175)}

Genders == {None, "male", "female", "other"}

ActivityLevels == {None, "lazy"} \cup DOMAIN ActivityMultipliers

Goals == {None, "bulk"} \cup DOMAIN GoalAdjustments

Profiles ==
    [age : Ages, weight : Weights, height : Heights, gender : Genders,
     activity_level : ActivityLevels, goal : Goals]

CalcResult(fn, user) ==
    CASE fn = "calculate_bmr" -> CalculateBmr(user)
      [] fn = "calculate_tdee" -> CalculateTdee(user)
      [] fn = "calculate_target_calories" -> CalculateTargetCalories(user)
      [] fn = "calculate_macros" -> CalculateMacros(user)

CallCalculator(fn) ==
    /\ call = NoCall
    /\ \E user \in Profiles :
          call' = [fn |-> fn, user |-> user, result |-> CalcResult(fn, user)]
    /\ UNCHANGED <<fsm, records, cache, redis_up, oracle, last, handled, tasks>>

(* Complete profiles inside the ranges handle_age_input,                   *)
(* handle_weight_input and handle_height_input accept: the ends of each    *)
(* range, a value inside it, and the weights at which the least            *)
(* carbohydrate amount occurs.                                             *)
AcceptedProfiles ==
    [age : {Number(15), Number(30), Number(80)},
     weight : {Number(30), Number(70), Number(110), Number(111), Number(112),
               Number(300)},
     height : {Number(140), Number(175), Number(220)},
     gender : {"male", "female"},
     activity_level : DOMAIN ActivityMultipliers,
     goal : DOMAIN GoalAdjustments]

CallCalculateMacros ==
    /\ call = NoCall
    /\ \E user \in AcceptedProfiles :
          call' = [fn |-> "calculate_macros", user |-> user,
                   result |-> CalculateMacros(user)]
    /\ UNCHANGED <<fsm, records, cache, redis_up, oracle, last, handled, tasks>>

CalcNext ==
    \/ CallCalculator("calculate_bmr")
    \/ CallCalculator("calculate_tdee")
    \/ CallCalculator("calculate_target_calories")
    \/ CallCalculator("calculate_macros")
    \/ CallCalculateMacros
    \/ Return

SpecCalc == Init /\ [][CalcNext]_vars

-----------------------------------------------------------------------------
(* Properties of the calculator *)

Called(fn) == call # NoCall /\ call.fn = fn

Present(x) == x # Nothing

RecognisedGender(user) == user.gender \in {"male", "female"}

(* 10*weight + 6.25*height - 5*age + 5 (male) or - 161 (female), in        *)
(* quarters.                                                               *)
MifflinStJeor4(user) ==
    40 * Value(user.weight) + 25 * Value(user.height) - 20 * Value(user.age)
        + ( IF user.gender = "male" THEN 20 ELSE -644 )

(* whole is n / d rounded to a whole number, ties to the even one. *)
NearestWhole(whole, n, d) ==
    LET diff == d * whole - n
    IN  /\ -d <= 2 * diff /\ 2 * diff <= d
        /\ (2 * diff = d \/ 2 * diff = -d) => whole % 2 = 0

(* C22: calculate_bmr returns None if and only if at least one of age,     *)
(* weight, height, gender is missing (None) or gender is neither male nor  *)
(* female; for every other profile, also one whose age, weight or height   *)
(* is the number 0, it returns a number.                                   *)
C22_BmrNoneIffMissing ==
    Called("calculate_bmr") =>
        ( call.result = Nothing <=>
            \/ ~Present(call.user.age)
            \/ ~Present(call.user.weight)
            \/ ~Present(call.user.height)
            \/ ~RecognisedGender(call.user) )

(* What the code does: a number 0 counts as missing. *)
C22_BmrNoneIffFalsy ==
    Called("calculate_bmr") =>
        ( call.result = Nothing <=>
            \/ ~Truthy(call.user.age)
            \/ ~Truthy(call.user.weight)
            \/ ~Truthy(call.user.height)
            \/ ~RecognisedGender(call.user) )

(* Age, weight and height are numbers other than 0, the gender is male or  *)
(* female.                                                                 *)
CompleteForBmr(user) ==
    /\ Truthy(user.age) /\ Truthy(user.weight) /\ Truthy(user.height)
    /\ RecognisedGender(user)

ExampleProfile ==
    [age |-> Number(30), weight |-> Number(70), height |-> Number(175),
     gender |-> "male", activity_level |-> "sedentary",
     goal |-> "maintain_weight"]

(* C23: for every complete profile calculate_bmr returns exactly           *)
(* 10*weight + 6.25*height - 5*age + 5 for male and the same with -161 for *)
(* female, and calculate_tdee returns exactly bmr times the activity       *)
(* multiplier, with no intermediate rounding; for the profile {age 30,     *)
(* weight 70, height 175, male, sedentary, maintain_weight} the results    *)
(* are bmr 1673.75, tdee 2008.5 and target calories 2008.5.                *)
C23_ExactFormulas ==
    /\ ( Called("calculate_bmr") /\ CompleteForBmr(call.user) ) =>
          /\ call.result # Nothing
          /\ 4 * Value(call.result) = MifflinStJeor4(call.user)
    /\ ( /\ Called("calculate_tdee")
         /\ CompleteForBmr(call.user)
         /\ call.user.activity_level \in DOMAIN ActivityMultipliers ) =>
          /\ call.result # Nothing
          /\ 4000 * Value(call.result) =
                MifflinStJeor4(call.user)
                    * ActivityMultipliers[call.user.activity_level]
    /\ ( call # NoCall /\ call.user = ExampleProfile ) =>
          /\ Called("calculate_bmr") => 4 * Value(call.result) = 6695
          /\ Called("calculate_tdee") => 2 * Value(call.result) = 4017
          /\ Called("calculate_target_calories") =>
                2 * Value(call.result) = 4017

(* C23 as amended: for every complete profile (age, weight and height not  *)
(* 0) calculate_bmr returns 10*weight + 6.25*height - 5*age + 5 for male   *)
(* and the same with -161 for female, rounded to a whole number (a tie to  *)
(* the even one), and calculate_tdee, when that bmr is not 0, returns the  *)
(* rounded bmr times the activity multiplier, rounded to a whole number in *)
(* the same way; for the profile {age 30, weight 70, height 175, male,     *)
(* sedentary, maintain_weight} the results are bmr 1649, tdee 1979 and     *)
(* target calories 1979.                                                   *)
C23_RoundedFormulas ==
    /\ ( Called("calculate_bmr") /\ CompleteForBmr(call.user) ) =>
          /\ call.result # Nothing
          /\ NearestWhole(Value(call.result), MifflinStJeor4(call.user), 4)
    /\ ( /\ Called("calculate_tdee")
         /\ CompleteForBmr(call.user)
         /\ call.user.activity_level \in DOMAIN ActivityMultipliers ) =>
          \E bmr \in -200..3000 :
              /\ NearestWhole(bmr, MifflinStJeor4(call.user), 4)
              /\ bmr # 0 =>
                    /\ call.result # Nothing
                    /\ NearestWhole(Value(call.result),
                           bmr * ActivityMultipliers[call.user.activity_level],
                           1000)
    /\ ( call # NoCall /\ call.user = ExampleProfile ) =>
          /\ Called("calculate_bmr") => call.result = Number(1649)
          /\ Called("calculate_tdee") => call.result = Number(1979)
          /\ Called("calculate_target_calories") => call.result = Number(1979)

(* calculate_tdee has returned for a profile whose unrounded bmr is no     *)
(* whole number.                                                           *)
C23_Witness ==
    /\ Called("calculate_tdee")
    /\ CompleteForBmr(call.user)
    /\ call.result # Nothing
    /\ MifflinStJeor4(call.user) % 4 # 0

Floor(user) == IF user.gender = "female" THEN 1200 ELSE 1500

(* C24: for every profile for which calculate_target_calories returns a    *)
(* number, that number equals max(tdee + adjustment, floor) with           *)
(* adjustment -500 for weight_loss, +500 for weight_gain, 0 for            *)
(* maintain_weight, and floor 1200 for female and 1500 for male; the       *)
(* result is never below the floor.                                        *)
C24_TargetIsFlooredAdjustedTdee ==
    ( Called("calculate_target_calories") /\ call.result # Nothing ) =>
        LET user == call.user
            result == Value(call.result)
            tdee == CalculateTdee(user)
            adjusted == Value(tdee) +
                ( CASE user.goal = "weight_loss" -> -500
                    [] user.goal = "weight_gain" -> 500
                    [] OTHER -> 0 )
        IN  /\ RecognisedGender(user)
            /\ tdee # Nothing
            /\ result >= Floor(user)
            /\ user.goal \in DOMAIN GoalAdjustments =>
                  /\ result >= adjusted
                  /\ result \in {adjusted, Floor(user)}

(* calculate_target_calories has returned the floor for a profile whose    *)
(* adjusted tdee is below it.                                              *)
C24_Witness ==
    /\ Called("calculate_target_calories")
    /\ call.result = Number(1200)
    /\ call.user.gender = "female"
    /\ call.user.goal = "weight_loss"
    /\ Value(CalculateTdee(call.user)) - 500 < 1200

AllSixRecognised(user) ==
    /\ Present(user.age) /\ Present(user.weight) /\ Present(user.height)
    /\ RecognisedGender(user)
    /\ user.activity_level \in DOMAIN ActivityMultipliers
    /\ user.goal \in DOMAIN GoalAdjustments

MacroKeys == {"calories", "protein", "fat", "carbs",
              "protein_percent", "fat_percent", "carbs_percent"}

(* C25: calculate_macros returns a result if and only if all six profile   *)
(* fields (age, weight, height, gender, activity_level, goal) are present  *)
(* with recognised gender, activity level and goal values; otherwise it    *)
(* returns None and never a partial result.  The same None propagates      *)
(* through calculate_tdee and calculate_target_calories.                   *)
C25_MacrosAllOrNothing ==
    /\ Called("calculate_macros") =>
          /\ call.result # Nothing <=> AllSixRecognised(call.user)
          /\ call.result # Nothing => DOMAIN Value(call.result) = MacroKeys
    /\ ( Called("calculate_tdee") /\ CalculateBmr(call.user) = Nothing ) =>
          call.result = Nothing
    /\ ( /\ Called("calculate_target_calories")
         /\ CalculateTdee(call.user) = Nothing ) => call.result = Nothing
    /\ ( /\ Called("calculate_macros")
         /\ CalculateTargetCalories(call.user) = Nothing ) =>
          call.result = Nothing

(* The same with a number 0 counted as missing and an unrecognised goal    *)
(* counted as maintain_weight: it holds.                                   *)
C25_MacrosAllOrNothingFalsy ==
    /\ Called("calculate_macros") =>
          /\ call.result # Nothing <=>
                /\ CompleteForBmr(call.user)
                /\ call.user.activity_level \in DOMAIN ActivityMultipliers
                /\ TruthyText(call.user.goal)
          /\ call.result # Nothing => DOMAIN Value(call.result) = MacroKeys
    /\ ( Called("calculate_tdee") /\ CalculateBmr(call.user) = Nothing ) =>
          call.result = Nothing
    /\ ( /\ Called("calculate_target_calories")
         /\ CalculateTdee(call.user) = Nothing ) => call.result = Nothing
    /\ ( /\ Called("calculate_macros")
         /\ CalculateTargetCalories(call.user) = Nothing ) =>
          call.result = Nothing

-----------------------------------------------------------------------------
(* C26: when two confirm callbacks for the same awaiting_confirmation      *)
(* session are handled as concurrent tasks (both pass the stage check      *)
(* before either clears the session), at most one persistence record is    *)
(* created.                                                                *)
C26_OneRecordPerSession == Len(records) <= 1

-----------------------------------------------------------------------------
(* Overlapping calls of analyze_food_from_text.  The call is split at its  *)
(* three awaits: redis_service.get_cached_food_analysis, the oracle call   *)
(* (langgraph_service.analyze_food_text_with_langgraph, followed without   *)
(* an await by _process_analysis_result) and                               *)
(* redis_service.cache_food_analysis.  A redis GET or SETEX is one atomic  *)
(* command of the server.  A finished call stays in tasks with what it     *)
(* returned.                                                               *)

MaxCallers == 3

AnalyzeTask(id, key, phase, resp, value) ==
    [id |-> id, key |-> key, phase |-> phase, resp |-> resp, value |-> value]

Moved(task, phase, resp, value) ==
    (tasks \ {task}) \cup {AnalyzeTask(task.id, task.key, phase, resp, value)}

AnalyzeTextEnter ==
    /\ Cardinality(tasks) < MaxCallers
    /\ \E t \in CacheTexts :
         tasks' = tasks \cup {AnalyzeTask(Cardinality(tasks), TextKey(t[1], t[2]),
                                          "get", NoResponse, EmptyDict)}
    /\ UNCHANGED <<fsm, records, cache, redis_up, oracle, last, handled, call>>

AnalyzeTextGet ==
    \E task \in tasks, get_ok \in RedisOutcomes :
      LET cached == GetCachedFoodAnalysis(cache, redis_up, task.key, get_ok)
      IN  /\ task.phase = "get"
          /\ tasks' = IF cached.hit
                      THEN Moved(task, "returned", NoResponse, cached.value)
                      ELSE Moved(task, "ask", NoResponse, EmptyDict)
          /\ UNCHANGED <<fsm, records, cache, redis_up, oracle, last, handled, call>>

AnalyzeTextAsk ==
    \E task \in tasks, resp \in CacheResponses :
      LET got == AnalyzeWithLanggraph(resp)
      IN  /\ task.phase = "ask"
          /\ tasks' = IF got.raised
                      THEN Moved(task, "raised", resp, EmptyDict)
                      ELSE Moved(task, "put", resp, ProcessAnalysisResult(got.value))
          /\ oracle' = Invoked(oracle, task.key)
          /\ UNCHANGED <<fsm, records, cache, redis_up, last, handled, call>>

AnalyzeTextPut ==
    \E task \in tasks, set_ok \in RedisOutcomes :
        /\ task.phase = "put"
        /\ cache' = CacheFoodAnalysis(cache, redis_up, task.key, task.value, set_ok)
        /\ tasks' = Moved(task, "returned", task.resp, task.value)
        /\ UNCHANGED <<fsm, records, redis_up, oracle, last, handled, call>>

RaceNext ==
    \/ AnalyzeTextEnter
    \/ AnalyzeTextGet
    \/ AnalyzeTextAsk
    \/ AnalyzeTextPut

SpecRace == CacheInit /\ [][RaceNext]_vars

-----------------------------------------------------------------------------
(* The universal text flow on a bot connected to redis, with the calls of  *)
(* the analysis oracle counted per fingerprint.  process_food_input calls  *)
(* langgraph_service.analyze_food_text_with_langgraph itself: neither it   *)
(* nor handle_universal_text_input reads or writes the analysis cache.     *)

RepeatInit == Started(TRUE)

HandleUniversalTextCounted(u) ==
    \E t \in UserTexts :
      \E ia \in InputAnalyses(t.text) :
        LET asked == ~t.short /\ ia["is_food_related"] /\ CallsOracle(ia)
            key == TextKey(ia["food_description"], ia["portion_info"])
        IN  \E resp \in Answers(asked) :
              /\ TakenClassified(u, "text", "handle_universal_text_input",
                       UniversalTextBody(fsm[u], t.text, t.short, ia, resp),
                       0, TRUE, resp.kind,
                       IF t.short THEN NoClass ELSE Classified(ia))
              /\ oracle' = IF asked THEN Invoked(oracle, key) ELSE oracle
              /\ UNCHANGED <<records, cache, redis_up, call, tasks>>

RepeatNext ==
    \E u \in Senders :
        \/ HandleUniversalTextCounted(u)
        \/ HandlePortionSelection(u)
        \/ CancelAction(u)

SpecRepeat == RepeatInit /\ [][RepeatNext]_vars

(* C27: the same free-text food description sent twice through the         *)
(* universal text handler inside the TTL window makes at most one call to  *)
(* the analysis oracle for its fingerprint, the second message being       *)
(* answered from the cache.  (No entry expires in SpecRepeat: every step   *)
(* is inside the window.)                                                  *)
C27_RepeatedTextOneOracleCall ==
    \A key \in DOMAIN oracle : oracle[key] <= 1

-----------------------------------------------------------------------------
(* The three analysis flows on oracle payloads that the validation rules   *)
(* are about: food payloads without a food_name, with the placeholder or   *)
(* the empty name, and with all four rates zero, next to a sound one.  The *)
(* handlers are those of Spec; redis is connected or not.                  *)

PayloadUnnamed ==
    [is_food |-> TRUE, description |-> "dish",
     portion_options |-> ThreeSizes(100, 200, 300),
     nutrition_per_100g |-> GoodRates]

PayloadPlaceholder ==
    [is_food |-> TRUE, food_name |-> UnknownDish, description |-> "dish",
     portion_options |-> ThreeSizes(100, 200, 300),
     nutrition_per_100g |-> GoodRates]

PayloadEmptyName ==
    [is_food |-> TRUE, food_name |-> EmptyName, description |-> "dish",
     portion_options |-> ThreeSizes(100, 200, 300),
     nutrition_per_100g |-> GoodRates]

PayloadZeroRates ==
    [is_food |-> TRUE, food_name |-> Banan, description |-> "fruit",
     portion_options |-> ThreeSizes(120, 240, 360),
     nutrition_per_100g |-> [n \in Nutrients |-> 0]]

DoubtfulResponses ==
    { OracleJson(p) : p \in { PayloadThreeSizes, PayloadUnnamed, PayloadPlaceholder,
                              PayloadEmptyName, PayloadZeroRates } }

DoubtfulAnswers(asked) == IF asked THEN DoubtfulResponses ELSE {NoResponse}

UniversalTextOnDoubtful(u) ==
    \E t \in UserTexts :
      \E ia \in InputAnalyses(t.text) :
        \E resp \in DoubtfulAnswers(~t.short /\ ia["is_food_related"]
                                       /\ CallsOracle(ia)) :
          /\ TakenClassified(u, "text", "handle_universal_text_input",
                   UniversalTextBody(fsm[u], t.text, t.short, ia, resp),
                   0, TRUE, resp.kind,
                   IF t.short THEN NoClass ELSE Classified(ia))
          /\ UNCHANGED <<records, cache, redis_up, oracle, call, tasks>>

UniversalPhotoOnDoubtful(u) ==
    \E photo \in Photos, caption \in Captions,
       get_ok \in RedisOutcomes, set_ok \in RedisOutcomes :
      LET key == PhotoKey(photo.image, caption)
          hit == GetCachedFoodAnalysis(cache, redis_up, key, get_ok).hit
      IN  \E resp \in DoubtfulAnswers(~photo.too_big /\ ~hit) :
            LET outcome == AnalyzeFood(cache, redis_up, key, resp, get_ok, set_ok)
            IN  /\ Taken(u, "photo", "handle_universal_photo_input",
                         UniversalPhotoBody(fsm[u], photo.too_big, photo.file_id,
                                            caption, outcome),
                         0, TRUE, resp.kind)
                /\ cache' = IF photo.too_big THEN cache ELSE outcome.cache
                /\ UNCHANGED <<records, redis_up, oracle, call, tasks>>

MenuTextOnDoubtful(u) ==
    \E t \in UserTexts, get_ok \in RedisOutcomes, set_ok \in RedisOutcomes,
       h \in {"handle_simple_text_input", "handle_detailed_text_input"} :
      LET portion_info == IF h = "handle_simple_text_input" THEN ""
                          ELSE DetailedPortionInfo(t.text)
          key == TextKey(t.text, portion_info)
          hit == GetCachedFoodAnalysis(cache, redis_up, key, get_ok).hit
      IN  \E resp \in DoubtfulAnswers(~t.short /\ ~hit) :
            LET outcome == AnalyzeFood(cache, redis_up, key, resp, get_ok, set_ok)
            IN  /\ Taken(u, "text", h,
                         IF t.short THEN fsm[u]
                         ELSE ProcessTextInput(fsm[u], t.text, outcome),
                         0, TRUE, resp.kind)
                /\ cache' = IF t.short THEN cache ELSE outcome.cache
                /\ UNCHANGED <<records, redis_up, oracle, call, tasks>>

MaxDoubtfulUpdates == 3

DoubtfulNext ==
  /\ handled < MaxDoubtfulUpdates
  /\ \E u \in Senders :
        \/ CancelAction(u)
        \/ StartTextInput(u)
        \/ StartSimpleTextInput(u)
        \/ StartDetailedTextInput(u)
        \/ UniversalTextOnDoubtful(u)
        \/ UniversalPhotoOnDoubtful(u)
        \/ MenuTextOnDoubtful(u)
        \/ HandlePortionSelection(u)

SpecDoubtful == CacheInit /\ [][DoubtfulNext]_vars

-----------------------------------------------------------------------------
(* The diary.  records is the food_entries table: the position of a row is *)
(* its autoincrement id, and a deleted row leaves its id unused.  The      *)
(* diary router has no state filter and comes before the food input        *)
(* routers, so its callbacks are handled in every stage and leave the      *)
(* session alone; user_id is the sender's id set by UserMiddleware, the    *)
(* entry id is the integer in the callback data.                           *)

MaxEntries == 2

DeletedRow == [deleted |-> TRUE]

DiaryRow(user_id, food_name) ==
    [deleted |-> FALSE, user_id |-> user_id, food_name |-> food_name]

(* food_ops.get_food_entry_by_id / the select of delete_food_entry: the    *)
(* row with this id and this user_id, if there is one.                     *)
GetFoodEntryById(rows, entry_id, user_id) ==
    IF entry_id \in 1..Len(rows) /\ ~rows[entry_id].deleted
       /\ rows[entry_id].user_id = user_id
    THEN [found |-> TRUE, entry |-> rows[entry_id]]
    ELSE [found |-> FALSE]

(* food_ops.delete_food_entry: the table it leaves and what it returns. *)
DeleteFoodEntry(rows, entry_id, user_id) ==
    IF GetFoodEntryById(rows, entry_id, user_id).found
    THEN [rows |-> [rows EXCEPT ![entry_id] = DeletedRow], returned |-> TRUE]
    ELSE [rows |-> rows, returned |-> FALSE]

DeleteEntryConfirmedAnyOwner(rows, entry_id, user_id, db_ok) ==
    IF ~db_ok THEN [rows |-> rows, report |-> "error"]
    ELSE IF entry_id \in 1..Len(rows) /\ ~rows[entry_id].deleted
    THEN [rows |-> [rows EXCEPT ![entry_id] = DeletedRow], report |-> "deleted"]
    ELSE [rows |-> rows, report |-> "not_found"]

(* diary.delete_entry_confirmed: the table it leaves and the message it    *)
(* edits in.  A database error raises inside get_db_session, which rolls   *)
(* back.                                                                   *)
DeleteEntryConfirmedBody(rows, entry_id, user_id, db_ok) ==
    LET deleted == DeleteFoodEntry(rows, entry_id, user_id)
    IN  IF ~db_ok THEN [rows |-> rows, report |-> "error"]
        ELSE IF ~GetFoodEntryById(rows, entry_id, user_id).found
        THEN [rows |-> rows, report |-> "not_found"]
        ELSE IF deleted.returned
        THEN [rows |-> deleted.rows, report |-> "deleted"]
        ELSE [rows |-> rows, report |-> "not_deleted"]

(* The entry ids a callback can carry: those of the table and one beyond. *)
EntryIds == 0..(MaxEntries + 1)

(* food_ops.create_food_entry, as the confirm handlers call it. *)
CreateFoodEntry(u) ==
    \E food_name \in {"banan", "sup"} :
        /\ Len(records) < MaxEntries
        /\ records' = Append(records, DiaryRow(u, food_name))
        /\ last' = Step("confirm_nutrition", u, "create_food_entry",
                        Len(records) + 1, TRUE, "created")
        /\ UNCHANGED <<fsm, cache, redis_up, oracle, handled, call, tasks>>

(* diary.view_food_entry and diary.confirm_delete_entry: they read. *)
ViewFoodEntry(u) ==
    \E entry_id \in EntryIds, db_ok \in BOOLEAN,
       h \in {"view_food_entry", "confirm_delete_entry"} :
        /\ last' = Step(IF h = "view_food_entry" THEN "view_entry"
                        ELSE "delete_entry", u, h, entry_id, db_ok,
                        IF ~db_ok THEN "error"
                        ELSE IF GetFoodEntryById(records, entry_id, u).found
                        THEN "shown" ELSE "not_found")
        /\ UNCHANGED <<fsm, records, cache, redis_up, oracle, handled, call, tasks>>

DeleteEntryConfirmed(u) ==
    \E entry_id \in EntryIds, db_ok \in BOOLEAN :
      LET outcome == DeleteEntryConfirmedBody(records, entry_id, u, db_ok)
      IN  /\ records' = outcome.rows
          /\ last' = Step("confirm_delete", u, "delete_entry_confirmed",
                          entry_id, db_ok, outcome.report)
          /\ UNCHANGED <<fsm, cache, redis_up, oracle, handled, call, tasks>>

DiaryNext ==
    \E u \in Users :
        \/ CreateFoodEntry(u)
        \/ ViewFoodEntry(u)
        \/ DeleteEntryConfirmed(u)

SpecDiary == Init /\ [][DiaryNext]_vars

-----------------------------------------------------------------------------
(* Properties of overlapping analyze calls *)

(* The normalized result of the oracle response resp. *)
NormalizedResultOf(resp) == ProcessAnalysisResult(ParseFoodAnalysisResponse(resp))

(* The call asked the oracle for its fingerprint and the oracle answered. *)
GotResponse(task) == task.resp \notin {NoResponse, OracleError}

AnalysisFields ==
    {"is_food", "food_name", "description", "portion_options",
     "nutrition_per_100g"}

(* C28: under every interleaving of overlapping analyze_food_from_text     *)
(* calls, the cache entry of a fingerprint is absent or is the whole       *)
(* normalized result of one single oracle response given for that          *)
(* fingerprint, and every call that returns hands back the whole           *)
(* normalized result of one oracle response for its fingerprint.           *)
C28_CacheEntryIsOneWholeResult ==
    /\ \A key \in DOMAIN cache :
         \E task \in tasks :
            /\ task.key = key
            /\ GotResponse(task)
            /\ cache[key].value = JsonDumps(NormalizedResultOf(task.resp))
    /\ \A task \in tasks :
         task.phase = "returned" =>
            /\ DOMAIN task.value = AnalysisFields
            /\ \E other \in tasks :
                  /\ other.key = task.key
                  /\ GotResponse(other)
                  /\ task.value = NormalizedResultOf(other.resp)

(* Two calls on one fingerprint both missed, got different oracle answers  *)
(* and both wrote; a third call was answered from the cache.               *)
C28_Witness ==
    \E a \in tasks, b \in tasks, c \in tasks :
        /\ a.key = b.key /\ b.key = c.key
        /\ a.phase = "returned" /\ b.phase = "returned" /\ c.phase = "returned"
        /\ GotResponse(a) /\ GotResponse(b) /\ a.resp # b.resp
        /\ c.resp = NoResponse
        /\ oracle[a.key] = 2
        /\ a.key \in DOMAIN cache
        /\ c.value = NormalizedResultOf(b.resp)

-----------------------------------------------------------------------------
(* Properties of the validation of oracle payloads *)

(* C31: no analysis whose food_name is missing, empty or a deny-listed     *)
(* placeholder is stored in a session at awaiting_portion or               *)
(* awaiting_confirmation, whichever flow produced it, also when the oracle *)
(* payload omits food_name.                                                *)
C31_NoPlaceholderNameInSession ==
    \A u \in Users :
        fsm[u].state \in AwaitingPortion \cup AwaitingConfirmation =>
            /\ "food_name" \in DOMAIN StoredAnalysis(fsm[u])
            /\ StoredAnalysis(fsm[u])["food_name"].text \notin DenyList

(* The four rates per 100 g of the analysis are all exactly zero. *)
AllRatesZero(analysis) ==
    \A n \in Nutrients :
        Get(Get(analysis, "nutrition_per_100g", EmptyDict), n, 0) = 0

(* C32: an oracle payload marked is_food true whose calories, protein, fat *)
(* and carbs per 100 g are all exactly zero is rejected in every flow: no  *)
(* session at awaiting_portion holds such an analysis and no cache entry   *)
(* is such a food analysis.                                                *)
C32_ZeroRatesRejected ==
    /\ \A u \in Users :
          fsm[u].state \in AwaitingPortion => ~AllRatesZero(StoredAnalysis(fsm[u]))
    /\ \A key \in DOMAIN cache :
          LET stored == JsonLoads(cache[key].value)
          IN  Get(stored, "is_food", FALSE) => ~AllRatesZero(stored)

-----------------------------------------------------------------------------
(* Properties of the oracle call *)

(* C33: when the text of the analysis oracle cannot be parsed into the     *)
(* expected shape, the oracle is invoked exactly one more time for the     *)
(* same request before the failure is surfaced, and never more than twice: *)
(* a request that is the first to reach the oracle for its fingerprint and *)
(* gets unparsable text leaves two invocations counted for it.             *)
C33_UnparsableRetriedOnce ==
    [][ ( /\ call'.fn \in {"analyze_food_from_text", "analyze_food_from_photo"}
          /\ call'.invoked
          /\ call'.resp = "noise"
          /\ Get(oracle, call'.key, 0) = 0 )
        => oracle'[call'.key] = 2 ]_vars

-----------------------------------------------------------------------------
(* Properties of the session lifetime *)

Waiting == AwaitingPortion \cup AwaitingConfirmation \cup {UniAwaitingClarification}

(* C34: a session is destroyed on confirm, on cancel and on timeout: after *)
(* a confirm or a cancel the stage is idle with no stored data, and a      *)
(* session left in awaiting_portion, awaiting_confirmation or              *)
(* awaiting_clarification with no further user events is eventually        *)
(* cleared.                                                                *)
C34_SessionDestroyed ==
    /\ [][ \A u \in Users :
             ( \/ Handled(u, "cancel")
               \/ Handled(u, "main_menu")
               \/ Handled(u, "confirm_nutrition") )
             => fsm'[u] = Cleared ]_vars
    /\ \A u \in Users : (fsm[u].state \in Waiting) ~> (fsm[u] = Cleared)

(* C36: only results that the oracle resolved as food are written to the   *)
(* cache, so that after a not-food or unparsable answer a later call with  *)
(* the same fingerprint invokes the oracle again: no cache entry holds an  *)
(* analysis that is not food, and no call is answered from the cache with  *)
(* one.                                                                    *)
C36_OnlyFoodCached ==
    /\ \A key \in DOMAIN cache :
          Get(JsonLoads(cache[key].value), "is_food", FALSE) = TRUE
    /\ ( /\ call.fn \in {"analyze_food_from_text", "analyze_food_from_photo"}
         /\ ~call.invoked )
       => Get(call.value, "is_food", FALSE) = TRUE

-----------------------------------------------------------------------------
(* Properties of the macronutrients *)

InAcceptedRanges(user) ==
    /\ AllSixRecognised(user)
    /\ Value(user.age) \in 15..80
    /\ Value(user.weight) \in 30..300
    /\ Value(user.height) \in 140..220

(* C38: for every complete profile inside the ranges accepted by profile   *)
(* input, calculate_macros returns non-negative protein, fat and carbs     *)
(* grams, and protein*4 + fat*9 + carbs*4 equals the returned target       *)
(* calories up to the rounding of the gram values: each is rounded to a    *)
(* tenth, so the sum is within 0.05*(4+9+4) = 0.85 kcal.  Grams are in     *)
(* tenths here, and so is the energy.                                      *)
C38_MacrosAddUp ==
    ( Called("calculate_macros") /\ InAcceptedRanges(call.user) ) =>
        /\ call.result # Nothing
        /\ LET macros == Value(call.result)
               energy == 4 * macros["protein"] + 9 * macros["fat"]
                            + 4 * macros["carbs"]
               off == energy - 10 * macros["calories"]
           IN  /\ macros["protein"] >= 0
               /\ macros["fat"] >= 0
               /\ macros["carbs"] >= 0
               /\ 10 * off <= 85
               /\ 10 * off >= -85

(* The profile with the least carbohydrates: 80 years, 111 kg, 140 cm,     *)
(* female, sedentary, weight_loss gets 1209 kcal with 222 g of protein and *)
(* 4.7 g of carbohydrates.                                                 *)
C38_Witness ==
    /\ Called("calculate_macros")
    /\ call.user = [age |-> Number(80), weight |-> Number(111),
                    height |-> Number(140), gender |-> "female",
                    activity_level |-> "sedentary", goal |-> "weight_loss"]
    /\ call.result # Nothing
    /\ Value(call.result)["calories"] = 1209
    /\ Value(call.result)["protein"] = 2220
    /\ Value(call.result)["carbs"] = 47

-----------------------------------------------------------------------------
(* Properties of the diary *)

(* Row entry_id exists and belongs to user u. *)
Owns(u, entry_id) ==
    /\ entry_id \in 1..Len(records)
    /\ ~records[entry_id].deleted
    /\ records[entry_id].user_id = u

(* C39: a delete request for entry e issued by user u removes e only if e  *)
(* belongs to u: under every sequence of view, delete and confirm-delete   *)
(* events a row changes only by being deleted by a confirm-delete of its   *)
(* owner for that very id, so the entries of every other user are          *)
(* unchanged, and a delete of a non-owned or missing entry reports failure *)
(* and changes nothing.                                                    *)
C39_DeleteOnlyOwn ==
    [][ /\ \A i \in 1..Len(records) :
             records'[i] # records[i] =>
                /\ last'.handler = "delete_entry_confirmed"
                /\ last'.index = i
                /\ Owns(last'.user, i)
                /\ records'[i] = DeletedRow
                /\ last'.resp = "deleted"
        /\ ( /\ last'.handler = "delete_entry_confirmed"
             /\ ~Owns(last'.user, last'.index) )
           => /\ records' = records
              /\ last'.resp \in {"not_found", "not_deleted", "error"}
        /\ last'.handler \in {"view_food_entry", "confirm_delete_entry"}
              => records' = records ]_vars

(* User u1 deleted an entry of their own, then asked to delete an entry of *)
(* u2, which is still there.                                               *)
C39_Witness ==
    /\ last.handler = "delete_entry_confirmed"
    /\ last.user = "u1"
    /\ last.resp = "not_found"
    /\ last.index \in 1..Len(records)
    /\ ~records[last.index].deleted
    /\ records[last.index].user_id = "u2"
    /\ \E i \in 1..Len(records) : records[i] = DeletedRow

=============================================================================
